---- MODULE Spec2Model ----
(***************************************************************************)
(* Model of the bulk arXiv metadata harvester of daily-paper-v2:           *)
(* daily_paper/nodes/fetch_papers_bulk_node.py.                            *)
(*                                                                         *)
(*   _LocalStore   partitioned JSONL store with a per-partition index      *)
(*   _Checkpoint   the harvest checkpoint file                             *)
(*   FetchPapersBulkNode._incremental_sync   the sync cycle                *)
(*                                                                         *)
(* Dates are day ordinals counted from the bootstrap date 2007-01-01 on a  *)
(* scaled calendar (DaysPerMonth days a month, MonthsPerYear months a      *)
(* year).  A datetime is <<day ordinal, hour>>; None is <<>>.  An ISO      *)
(* string is the tuple of its fixed-width fields <<year, month, day,       *)
(* hour>>, compared field by field as Python compares the characters of    *)
(* two strings; the empty string is <<>>.                                  *)
(***************************************************************************)
EXTENDS Integers, Sequences, FiniteSets, TLC

\* ---------------------------------------------------------------- bounds
MaxDay == 4
MaxRows == 2
MaxTotal == 2
\* the flush threshold of _incremental_sync (500 records), scaled down
FlushThreshold == 2
MaxYield == 2
MaxRuns == 2

Ids == {"a", "b"}
NoId == ""
WindowDayChoices == {2}
BootstrapDay == 0

\* the scaled calendar: the months of a year, the days of a month, and the
\* hours a harvested timestamp can carry (arXiv sends dates, so midnight)
MonthsOfYear == {1, 2}
DaysOfMonth == {1, 2}
Hours == {0}
MonthsPerYear == Cardinality(MonthsOfYear)
DaysPerMonth == Cardinality(DaysOfMonth)

Days == 0..MaxDay
None == <<>>

\* ------------------------------------------------------- calendar, ISO
YearOf(d) == d \div (DaysPerMonth * MonthsPerYear)
MonthOf(d) == ((d \div DaysPerMonth) % MonthsPerYear) + 1
DayOf(d) == (d % DaysPerMonth) + 1
MkDate(y, m, dd) == (y * MonthsPerYear + (m - 1)) * DaysPerMonth + (dd - 1)

\* line 41 without the month
_month_key_YearOnly(d) == <<YearOf(d), 1>>

\* lines 40-41
_month_key(d) == <<YearOf(d), MonthOf(d)>>
UnknownKey == <<0, 0>>

DateTimes == Days \X Hours

\* A datetime is <<day, hour>> when naive and <<day, hour, offset>>, offset
\* in hours east of UTC, when aware. Its ISO string is <<y, m, d, h>>
\* followed, when aware, by the sign character of the offset and its hours;
\* the characters "+" and "-" are held as their codes.
Sign == [plus |-> 43, minus |-> 45]

isoformat(t) ==
    <<YearOf(t[1]), MonthOf(t[1]), DayOf(t[1]), t[2]>>
    \o (IF Len(t) = 3
        THEN IF t[3] >= 0 THEN <<Sign.plus, t[3]>> ELSE <<Sign.minus, 0 - t[3]>>
        ELSE <<>>)

IsIso(s) ==
    /\ Len(s) \in {3, 4, 6}
    /\ s[1] >= 0
    /\ s[2] \in MonthsOfYear
    /\ s[3] \in DaysOfMonth
    /\ Len(s) >= 4 => s[4] \in 0..23
    /\ Len(s) = 6 => s[5] \in {Sign.plus, Sign.minus} /\ s[6] \in 0..23

fromisoformat(s) ==
    IF IsIso(s)
    THEN <<MkDate(s[1], s[2], s[3]), IF Len(s) >= 4 THEN s[4] ELSE 0>>
         \o (IF Len(s) = 6
             THEN <<IF s[5] = Sign.plus THEN s[6] ELSE 0 - s[6]>>
             ELSE <<>>)
    ELSE None

Min(a, b) == IF a < b THEN a ELSE b

DtLess(a, b) == a[1] < b[1] \/ (a[1] = b[1] /\ a[2] < b[2])
DtLeq(a, b) == a = b \/ DtLess(a, b)

RECURSIVE StrLess(_, _)
StrLess(a, b) ==
    IF b = <<>> THEN FALSE
    ELSE IF a = <<>> THEN TRUE
    ELSE IF Head(a) # Head(b) THEN Head(a) < Head(b)
    ELSE StrLess(Tail(a), Tail(b))

StrGeq(a, b) == ~StrLess(a, b)

IsoStrings == {isoformat(t) : t \in DateTimes}
UpdatedValues == IsoStrings \cup {None}
PartKeys == {_month_key(d) : d \in Days} \cup {UnknownKey}

Rows == [arxiv_id : Ids \cup {NoId}, updated : UpdatedValues]

\* ------------------------------------------------------------ variables
VARIABLES
    files,      \* partition key -> lines of data.jsonl
    index,      \* partition key -> index.json (id -> updated)
    cache,      \* _LocalStore._index_cache of the live store object
    last,       \* last direct store operation (store specification)
    ckfile,     \* the checkpoint file
    tmpfile,    \* the checkpoint's temporary file (path + ".tmp")
    today,      \* dt.date.today()
    clk,        \* dt.datetime.now(), as a logical instant
    pc,         \* position of _incremental_sync
    loc,        \* locals of _incremental_sync
    g,          \* history of the current cycle
    oai,        \* the frame of an _OAIClient.list_records generator
    net,        \* the endpoint as the generator has used it
    sel         \* a call of _select_locally: arguments and result

storeVars == <<files, index, cache>>
clientVars == <<oai, net>>
syncVars == <<ckfile, tmpfile, today, clk, pc, loc, g, oai, net, sel>>
nodeVars == <<files, index, cache, last, ckfile, tmpfile, today, clk, pc, loc, g, sel>>
vars == <<files, index, cache, last, ckfile, tmpfile, today, clk, pc, loc, g, oai, net, sel>>

\* --------------------------------------------------------- _LocalStore
EmptyIndex == [x \in {} |-> None]

\* line 210 with the first month in place of "unknown"
PartitionOf_NoUnknown(r) ==
    LET updated_dt == fromisoformat(r.updated)
    IN  _month_key(IF updated_dt = None THEN 0 ELSE updated_dt[1])

\* lines 205-210
PartitionOf(r) ==
    LET updated_dt == fromisoformat(r.updated)
    IN  IF updated_dt = None THEN UnknownKey ELSE _month_key(updated_dt[1])

\* _load_index without the read of index.json (lines 179-186)
_load_index_NoFile(st, p) ==
    IF p \in DOMAIN st.cache THEN st.cache[p] ELSE EmptyIndex

\* lines 176-188
_load_index(st, p) ==
    IF p \in DOMAIN st.cache THEN st.cache[p] ELSE st.index[p]

\* line 228 left out
IndexPut_Skip(idx, id, u) == idx

\* line 228
IndexPut(idx, id, u) ==
    [x \in DOMAIN idx \cup {id} |-> IF x = id THEN u ELSE idx[x]]

\* variants of the dedup test of line 225
Skips_Strict(idx, obj) ==
    \/ obj.arxiv_id = NoId
    \/ obj.arxiv_id \in DOMAIN idx /\ StrLess(obj.updated, idx[obj.arxiv_id])

Skips_Reversed(idx, obj) ==
    \/ obj.arxiv_id = NoId
    \/ obj.arxiv_id \in DOMAIN idx /\ StrGeq(obj.updated, idx[obj.arxiv_id])

Skips_NoCompare(idx, obj) == obj.arxiv_id = NoId

\* lines 219-226: the record is skipped
Skips(idx, obj) ==
    \/ obj.arxiv_id = NoId
    \/ obj.arxiv_id \in DOMAIN idx /\ StrGeq(idx[obj.arxiv_id], obj.updated)

\* variant of lines 218-229 that tests every item against the index as
\* it was loaded
RECURSIVE WriteItems_StaleIndex(_, _, _)
WriteItems_StaleIndex(items, idx, lines) ==
    LET kept == SelectSeq(items, LAMBDA obj : ~Skips(idx, obj))
        RECURSIVE Put(_, _)
        Put(its, ix) == IF its = <<>> THEN ix
                        ELSE Put(Tail(its), IndexPut(ix, Head(its).arxiv_id, Head(its).updated))
    IN  [idx |-> Put(kept, idx), lines |-> lines \o kept]

\* lines 218-229: the loop over the items of one partition
RECURSIVE WriteItems(_, _, _)
WriteItems(items, idx, lines) ==
    IF items = <<>> THEN [idx |-> idx, lines |-> lines]
    ELSE LET obj == Head(items)
         IN  IF Skips(idx, obj)
             THEN WriteItems(Tail(items), idx, lines)
             ELSE WriteItems(Tail(items),
                             IndexPut(idx, obj.arxiv_id, obj.updated),
                             Append(lines, obj))

Bucket(rows, p) == SelectSeq(rows, LAMBDA r : PartitionOf(r) = p)

RECURSIVE BucketKeys(_, _)
BucketKeys(rows, acc) ==
    IF rows = <<>> THEN acc
    ELSE LET k == PartitionOf(Head(rows))
         IN  BucketKeys(Tail(rows),
                        IF \E i \in 1..Len(acc) : acc[i] = k
                        THEN acc ELSE Append(acc, k))

CachePut(c, p, idx) ==
    [q \in DOMAIN c \cup {p} |-> IF q = p THEN idx ELSE c[q]]

AppendPartition(st, p, items, save) ==
    LET r == WriteItems(items, _load_index(st, p), <<>>)
    IN  [files |-> [st.files EXCEPT ![p] = @ \o r.lines],
         cache |-> CachePut(st.cache, p, r.idx),
         index |-> IF save /\ r.lines # <<>>
                   THEN [st.index EXCEPT ![p] = r.idx]
                   ELSE st.index]

RECURSIVE AppendBuckets(_, _, _)
AppendBuckets(st, rows, keys) ==
    IF keys = <<>> THEN st
    ELSE AppendBuckets(AppendPartition(st, Head(keys),
                                       Bucket(rows, Head(keys)), TRUE),
                       rows, Tail(keys))

append_records(st, rows) == AppendBuckets(st, rows, BucketKeys(rows, <<>>))

Store == [files |-> files, index |-> index, cache |-> cache]

EmptyStore ==
    [files |-> [p \in PartKeys |-> <<>>],
     index |-> [p \in PartKeys |-> EmptyIndex],
     cache |-> [p \in {} |-> EmptyIndex]]

\* read_range: the month partitions from start_date's month to end_date's
\* month, their lines in month order, kept when the parsed updated date is
\* inside [start_date, end_date].
RECURSIVE MonthsFrom(_, _, _)
MonthsFrom(cur, end_anchor, acc) ==
    IF cur > end_anchor THEN acc
    ELSE LET ny == YearOf(cur) + (IF MonthOf(cur) = MonthsPerYear THEN 1 ELSE 0)
             nm == IF MonthOf(cur) = MonthsPerYear THEN 1 ELSE MonthOf(cur) + 1
         IN  MonthsFrom(MkDate(ny, nm, 1), end_anchor, Append(acc, _month_key(cur)))

RECURSIVE ReadMonths(_, _)
ReadMonths(fs, months) ==
    IF months = <<>> THEN <<>>
    ELSE (IF Head(months) \in DOMAIN fs THEN fs[Head(months)] ELSE <<>>)
         \o ReadMonths(fs, Tail(months))

\* variant of line 266 with an exclusive end
InRange_Exclusive(obj, start_date, end_date) ==
    LET u == fromisoformat(obj.updated)
    IN  u # None /\ u[1] >= start_date /\ u[1] < end_date

\* line 266: the mask on the parsed updated date
InRange(obj, start_date, end_date) ==
    LET u == fromisoformat(obj.updated)
    IN  u # None /\ u[1] >= start_date /\ u[1] <= end_date

read_range(fs, start_date, end_date) ==
    LET cur == MkDate(YearOf(start_date), MonthOf(start_date), 1)
        end_anchor == MkDate(YearOf(end_date), MonthOf(end_date), 1)
        rows == ReadMonths(fs, MonthsFrom(cur, end_anchor, <<>>))
    IN  SelectSeq(rows, LAMBDA obj : InRange(obj, start_date, end_date))

\* last: the last operation on the store (what was called, with which
\* arguments, and what it returned); n counts the records handed to
\* append_records so far.
NoLast == [kind |-> "none", rows |-> <<>>, a |-> 0, b |-> 0, n |-> 0]

\* --------------------------------------------------------- _Checkpoint
\* A file of the checkpoint is the state dict it was written from and len,
\* the number of pieces of the dict's JSON text that it holds.
\* line 71: the text json.dump writes, piece by piece
json_dump(state) ==
    <<[t |-> "{", v |-> None],
      [t |-> "last_updated_iso", v |-> state.last_updated_iso],
      [t |-> "last_run", v |-> state.last_run],
      [t |-> "}", v |-> None]>>

FileText(f) == SubSeq(json_dump(f), 1, f.len)

\* json.load (line 64) accepts the text
Parses(text) ==
    /\ Len(text) > 1
    /\ text[1].t = "{"
    /\ text[Len(text)].t = "}"

NoCheckpoint == [exists |-> FALSE, last_updated_iso |-> None, last_run |-> 0, len |-> 0]

\* the state dict {}: get("last_updated_iso") is None
EmptyState == [last_updated_iso |-> None, last_run |-> 0]
Loaded(state) == [raised |-> FALSE, state |-> state]

\* line 64: json.load returns the dict or raises
json_load(f) ==
    IF Parses(FileText(f))
    THEN Loaded([last_updated_iso |-> f.last_updated_iso, last_run |-> f.last_run])
    ELSE [raised |-> TRUE, state |-> EmptyState]

\* lines 60-64 without the try of lines 62-66
_load_NoExcept(f) == IF f.exists THEN json_load(f) ELSE Loaded(EmptyState)

\* lines 60-66: self.state after _load, and whether _load raised
_load(f) ==
    IF f.exists /\ ~json_load(f).raised THEN json_load(f) ELSE Loaded(EmptyState)

\* line 398: _Checkpoint(path) raises
CheckpointRaises(f) == _load(f).raised

\* lines 74-81
get_since(f) ==
    LET v == _load(f).state.last_updated_iso
    IN  IF v = None THEN None ELSE fromisoformat(v)

\* lines 83-86 and 68-72: the file after set_since and save have returned
set_since(t, now) ==
    LET state == [last_updated_iso |-> isoformat(t), last_run |-> now]
    IN  [exists |-> TRUE, last_updated_iso |-> state.last_updated_iso,
         last_run |-> state.last_run, len |-> Len(json_dump(state))]

\* ------------------------------------------------------- _parse_record
\* A wire record: md says whether the arXiv metadata element is there; the
\* texts of created and updated are <<>> (absent), a date <<y, m, d>>, or
\* text that is no ISO date.
BadText == <<0, 0, 0>>
DateText(d) == <<YearOf(d), MonthOf(d), DayOf(d)>>
WireTimes == {DateText(d) : d \in Days} \cup {None, BadText}

\* The records the upstream sends: every date, no date and a bad date for
\* one id and for a missing id, one date for the other ids, records whose
\* created text decides the outcome, and a record without metadata.
WireRecords ==
    [md : {TRUE}, id : {"a", NoId}, created : {None}, updated : WireTimes]
    \cup [md : {TRUE}, id : Ids, created : {None}, updated : {DateText(1)}]
    \cup [md : {TRUE}, id : {"a"}, created : {BadText, DateText(1)}, updated : {None, DateText(0)}]
    \cup [md : {FALSE}, id : {NoId}, created : {None}, updated : {None}]

NoObj == [arxiv_id |-> NoId, updated |-> None]

_parse_record(rec) ==
    IF ~rec.md THEN NoObj
    ELSE LET created == rec.created
             updated == IF rec.updated # None THEN rec.updated ELSE created
             raises == \/ created # None /\ fromisoformat(created) = None
                       \/ updated # None /\ fromisoformat(updated) = None
             created_dt == IF created # None THEN fromisoformat(created) ELSE None
             updated_dt == IF raises THEN None
                           ELSE IF updated # None THEN fromisoformat(updated)
                           ELSE created_dt
         IN  [arxiv_id |-> rec.id,
              updated |-> IF updated_dt # None THEN isoformat(updated_dt) ELSE None]

\* ------------------------------------------------------ _select_locally
\* A row of the DataFrame read_range returns: updated is a parsed date (a
\* day ordinal), created a parsed date or NaT; title and abstract are
\* strings, sequences of characters; categories is a list or no list.
MaxSelRows == 3
NaT == -1
NL == "\n"

SelIds == {"a", "b"}
SelDays == {0, 1}
NoCats == [list |-> FALSE, items |-> {}]

Range(p) == {p[i] : i \in 1..Len(p)}
Pos(p, x) == CHOOSE i \in 1..Len(p) : p[i] = x

\* str.lower of a character and of a string
LowerChar(c) == CASE c = "A" -> "a" [] c = "B" -> "b" [] OTHER -> c
lower(t) == [i \in 1..Len(t) |-> LowerChar(t[i])]

\* k in t
Contains(t, k) ==
    \E i \in 0..(Len(t) - Len(k)) : SubSeq(t, i + 1, i + Len(k)) = k

\* line 339 without the newline between title and abstract
text_series_NoNewline(row) == lower(row.title \o row.abstract)

\* line 339
text_series(row) == lower(row.title \o <<NL>> \o row.abstract)

\* lines 336-348: mask_incl & mask_excl for one row
KeywordMask(row, cfg) ==
    LET incl == {lower(k) : k \in cfg.select_keywords_include}
        excl == {lower(k) : k \in cfg.select_keywords_exclude}
        t == text_series(row)
    IN  IF incl = {} /\ excl = {} THEN TRUE
        ELSE /\ incl # {} => \E k \in incl : Contains(t, k)
             /\ excl # {} => ~\E k \in excl : Contains(t, k)

\* lines 353-357 with the list of categories ignored
has_cat_PrimaryOnly(row, cats) == row.primary_category \in cats

\* lines 351-358
has_cat(row, cats) ==
    IF row.categories.list
    THEN row.categories.items \cap cats # {}
    ELSE row.primary_category \in cats

CategoryMask(row, cfg) ==
    cfg.select_categories # {} => has_cat(row, cfg.select_categories)

\* The orders of the labels in p by column col that DataFrame.sort_values
\* can give: its default kind is quicksort, which is not stable, so rows of
\* equal key come in any order; NaT keys come last.
Perms(S) ==
    {q \in [1..Cardinality(S) -> S] :
        \A i, j \in 1..Cardinality(S) : i # j => q[i] # q[j]}

Before(x, y, ascending) ==
    IF y = NaT THEN TRUE
    ELSE IF x = NaT THEN FALSE
    ELSE IF ascending THEN x <= y ELSE x >= y

sort_values(df, p, col, ascending) ==
    {q \in Perms(Range(p)) :
        \A i, j \in 1..Len(q) :
            i < j => Before(df[q[i]][col], df[q[j]][col], ascending)}

\* drop_duplicates("arxiv_id", keep="first")
drop_duplicates_First(df, p) ==
    SelectSeq(p, LAMBDA x :
        \A j \in 1..(Pos(p, x) - 1) : df[p[j]].arxiv_id # df[x].arxiv_id)

\* line 333: drop_duplicates("arxiv_id", keep="last")
drop_duplicates(df, p) ==
    SelectSeq(p, LAMBDA x :
        \A j \in (Pos(p, x) + 1)..Len(p) : df[p[j]].arxiv_id # df[x].arxiv_id)

\* DataFrame.head(n): the first n rows, or all but the last -n rows
df_head(p, n) ==
    IF n >= 0 THEN SubSeq(p, 1, Min(n, Len(p))) ELSE SubSeq(p, 1, Len(p) + n)

\* lines 365-366 with the truthiness test left out
head_Always(p, limit) == df_head(p, limit)

\* lines 365-366
head(p, limit) == IF limit # 0 THEN df_head(p, limit) ELSE p

\* lines 361-364
OrderColumn(cfg) ==
    IF cfg.select_order_by = "created_desc" THEN "created" ELSE "updated"

\* lines 327-367: the results a call can give, each with the labels of the
\* lines 331-367 with the filters of lines 335-358 before the dedup of
\* line 333
_select_locally_FilterFirst(df, cfg) ==
    IF df = <<>> THEN {[dedup |-> <<>>, kept |-> <<>>, sorted |-> <<>>, out |-> <<>>]}
    ELSE LET passed == SelectSeq([i \in 1..Len(df) |-> i], LAMBDA x :
                           KeywordMask(df[x], cfg) /\ CategoryMask(df[x], cfg))
         IN  UNION {
                 {[dedup |-> drop_duplicates(df, s1), kept |-> drop_duplicates(df, s1),
                   sorted |-> s2, out |-> head(s2, cfg.select_limit)] :
                      s2 \in sort_values(df, drop_duplicates(df, s1), OrderColumn(cfg), FALSE)} :
                 s1 \in sort_values(df, passed, "updated", TRUE)}

\* rows after dedup (dedup), after the filters (kept), after the final sort
\* (sorted) and returned (out)
_select_locally(df, cfg) ==
    IF df = <<>> THEN {[dedup |-> <<>>, kept |-> <<>>, sorted |-> <<>>, out |-> <<>>]}
    ELSE UNION {
        LET dedup == drop_duplicates(df, s1)
            kept == SelectSeq(dedup, LAMBDA x :
                        KeywordMask(df[x], cfg) /\ CategoryMask(df[x], cfg))
        IN  {[dedup |-> dedup, kept |-> kept, sorted |-> s2,
              out |-> head(s2, cfg.select_limit)] :
                 s2 \in sort_values(df, kept, OrderColumn(cfg), FALSE)} :
        s1 \in sort_values(df, [i \in 1..Len(df) |-> i], "updated", TRUE)}

NoSel == [state |-> "none", df |-> <<>>, cfg |-> <<>>, limit |-> [set |-> FALSE, value |-> 0],
          run |-> [dedup |-> <<>>, kept |-> <<>>, sorted |-> <<>>, out |-> <<>>]]

\* ------------------------------------------------------------ _OAIClient
\* ArxivBulkConfig.bulk_max_retries
max_retries == 5
MaxPages == 2
MaxPageRecs == 2
ClientDays == 0..1
set_spec == "cs"

\* Text of a resumptionToken element: a sequence of characters, WS a
\* whitespace character, any other character a number.  The endpoint's
\* token for page p is the one-character text <<p>>.
WS == 0

RECURSIVE lstrip(_)
lstrip(s) == IF s # <<>> /\ Head(s) = WS THEN lstrip(Tail(s)) ELSE s

RECURSIVE rstrip(_)
rstrip(s) ==
    IF s # <<>> /\ s[Len(s)] = WS THEN rstrip(SubSeq(s, 1, Len(s) - 1)) ELSE s

strip(s) == rstrip(lstrip(s))

\* the resumptionToken element of a response: absent, empty, blank, or
\* the token of the next page, bare or surrounded by whitespace
NoElt == [present |-> FALSE, text |-> <<>>]
TokenElts(p) ==
    {NoElt, [present |-> TRUE, text |-> <<>>], [present |-> TRUE, text |-> <<WS>>]}
    \cup (IF p < MaxPages
          THEN {[present |-> TRUE, text |-> <<p + 1>>],
                [present |-> TRUE, text |-> <<WS, p + 1, WS>>]}
          ELSE {})

\* a parsed response: n record elements and the resumptionToken element
Roots(p) == [n : 0..MaxPageRecs, rt_elt : TokenElts(p)]
NoRoot == [n |-> 0, rt_elt |-> NoElt]

NoQuery == [x \in {} |-> None]

\* lines 108-114
Params(from_date, until_date) ==
    [verb |-> "ListRecords", metadataPrefix |-> "arXiv", set |-> set_spec,
     from |-> DateText(from_date), until |-> DateText(until_date)]

\* lines 118-122 sending the token together with the initial parameters
BuildQuery_Mixed(params, resumption_token) ==
    IF resumption_token # None
    THEN [verb |-> "ListRecords", metadataPrefix |-> "arXiv", set |-> set_spec,
          from |-> params.from, until |-> params.until,
          resumptionToken |-> resumption_token]
    ELSE params

\* lines 118-122
BuildQuery(params, resumption_token) ==
    IF resumption_token # None
    THEN [verb |-> "ListRecords", resumptionToken |-> resumption_token]
    ELSE params

\* lines 148-150 never taking up a token
NextToken_Stop(root) == None

\* lines 148-150: the token taken from the response, None when there is none
NextToken(root) ==
    IF root.rt_elt.present THEN strip(root.rt_elt.text) ELSE None

\* The ways a request fails: the exceptions the handler of line 132 names,
\* and the ones urlopen and read raise that it does not name (TimeoutError
\* stands for socket timeouts, ConnectionResetError, RemoteDisconnected and
\* IncompleteRead, none of which is a URLError).
Caught == {"HTTPError", "URLError", "ParseError"}
Uncaught == {"TimeoutError"}
Failures == Caught \cup Uncaught

\* the exception object: an HTTPError holds the URL of its request
Exc(kind, query) ==
    [type |-> kind, url |-> IF kind = "HTTPError" THEN query ELSE NoQuery]
NoExc == [type |-> "none", url |-> NoQuery]

\* lines 133-134 leaving the retry loop and the stream without raising
AfterExhausted_Skip == "done"

\* lines 133-134: raise
AfterExhausted == "raised"

NoCall == [pc |-> "idle", params |-> NoQuery, resumption_token |-> None,
           query |-> NoQuery, attempt |-> 0, root |-> NoRoot, i |-> 0,
           exc |-> NoExc]

\* net: sent: the query of the last request; asked: the page it asks for;
\* tries: requests made for that page; served: pages received; outcome:
\* how the last request ended; rt_elt: the resumptionToken element of the
\* last received page; got, out: records received and records yielded.
NoNet == [sent |-> NoQuery, asked |-> 0, tries |-> 0, served |-> 0,
          outcome |-> "none", rt_elt |-> NoElt, got |-> 0, out |-> 0]

ClientIdle == oai = NoCall /\ net = NoNet /\ sel = NoSel

\* the page a query asks the endpoint for
PageOf(query) ==
    IF "resumptionToken" \in DOMAIN query THEN query.resumptionToken[1] ELSE 1

\* lines 107-114: a generator is created and started, the first one or one
\* that follows a generator that has ended
Call(from_date, until_date) ==
    /\ oai.pc \in {"idle", "done", "raised"}
    /\ from_date <= until_date
    /\ LET params == Params(from_date, until_date)
       IN  oai' = [NoCall EXCEPT !.pc = "try", !.params = params,
                                 !.query = BuildQuery(params, None)]
    /\ net' = NoNet
    /\ UNCHANGED nodeVars

Sent(outcome) ==
    [net EXCEPT !.sent = oai.query,
                !.asked = PageOf(oai.query),
                !.tries = IF PageOf(oai.query) = net.asked THEN @ + 1 ELSE 1,
                !.outcome = outcome]

\* lines 126-131: the request succeeds and the response parses
RequestOk(root) ==
    /\ oai.pc = "try"
    /\ root \in Roots(PageOf(oai.query))
    /\ oai' = [oai EXCEPT !.pc = "yield", !.root = root, !.i = 0]
    /\ net' = [Sent("ok") EXCEPT !.served = @ + 1, !.got = @ + root.n,
                                 !.rt_elt = root.rt_elt]
    /\ UNCHANGED nodeVars

\* lines 132-137: a failure the handler names
RequestFail(kind) ==
    /\ oai.pc = "try"
    /\ kind \in Caught
    /\ IF oai.attempt >= max_retries
       THEN oai' = [oai EXCEPT !.pc = AfterExhausted, !.exc = Exc(kind, oai.query)]
       ELSE oai' = [oai EXCEPT !.attempt = @ + 1]
    /\ net' = Sent(kind)
    /\ UNCHANGED nodeVars

\* lines 127-130: an exception the handler does not name leaves list_records
RequestFailUncaught(kind) ==
    /\ oai.pc = "try"
    /\ kind \in Uncaught
    /\ oai' = [oai EXCEPT !.pc = "raised", !.exc = Exc(kind, oai.query)]
    /\ net' = Sent(kind)
    /\ UNCHANGED nodeVars

\* lines 143-145: the next record of the page is handed to the caller
YieldRecord ==
    /\ oai.pc = "yield"
    /\ oai.i < oai.root.n
    /\ oai' = [oai EXCEPT !.i = @ + 1]
    /\ net' = [net EXCEPT !.out = @ + 1]
    /\ UNCHANGED nodeVars

\* lines 147-153 and 117-124: after the last record of the page
NextPage ==
    /\ oai.pc = "yield"
    /\ oai.i = oai.root.n
    /\ LET rt == NextToken(oai.root)
       IN  IF rt # None
           THEN oai' = [oai EXCEPT !.pc = "try", !.resumption_token = rt,
                                   !.query = BuildQuery(oai.params, rt),
                                   !.attempt = 0]
           ELSE oai' = [oai EXCEPT !.pc = "done"]
    /\ UNCHANGED net
    /\ UNCHANGED nodeVars

\* ---------------------------------------------------- _incremental_sync
\* lines 430-436 and 441-447: track the largest updated of a flushed batch
RECURSIVE Track(_, _)
\* lines 430-436 without the comparison of line 433
Track_Last(batch, last_seen_updated) ==
    IF batch = <<>> THEN last_seen_updated
    ELSE LET ud == fromisoformat(batch[Len(batch)].updated)
         IN  IF ud # None THEN ud ELSE last_seen_updated

\* lines 430-436 and 441-447
Track(batch, last_seen_updated) ==
    IF batch = <<>> THEN last_seen_updated
    ELSE LET ud == fromisoformat(Head(batch).updated)
         IN  Track(Tail(batch),
                   IF ud # None /\ (last_seen_updated = None \/ DtLess(last_seen_updated, ud))
                   THEN ud ELSE last_seen_updated)

NoLoc == [since_dt |-> None, start |-> 0, end |-> 0, cur |-> 0, window_end |-> 0,
          window_days |-> 0, batch |-> <<>>, last_seen_updated |-> None]

\* g: what the current cycle has done so far.  files0, ckpt0: the files and
\* the checkpoint when it began; wins: the windows visited, <<from, until,
\* completed>>; flushed: the records append_records returned for; winRecs:
\* those of the current window; okRecs: those of completed windows;
\* yielded: the records with an id the stream yielded; seen: the records
\* flushed by earlier cycles; fallback: the end date last written because
\* nothing was observed; ioErr: append_records raised; afterErr: a window
\* was begun after that; n: records yielded since the start; lost: the
\* records yielded to cycles that the process did not survive; recvd: the
\* records with an id the stream of the current window yielded, in order;
\* passes: the batches of the current window append_records returned
\* for, in order; floor: the latest date of a checkpoint that an earlier
\* cycle wrote after one of its windows lying before that date had failed;
\* noid: the number of records without a usable id the stream of the
\* current window yielded; discarded: the records of the cycle that were
\* in the batch when their window failed; trace: recvd, passes, noid,
\* discarded and floor are kept (the batch specification keeps them, the
\* others leave them empty).
\* What a call of _incremental_sync has given back: nothing yet, or the
\* None of the return in line 411 and of the end of the function body.
NoReturn == [returned |-> FALSE, value |-> None]
ReturnNone == [returned |-> TRUE, value |-> None]

NoG == [status |-> "none", files0 |-> EmptyStore.files, ckpt0 |-> NoCheckpoint,
        ret |-> NoReturn,
        wins |-> <<>>, flushed |-> {}, winRecs |-> {}, okRecs |-> {},
        yielded |-> {}, seen |-> {}, fallback |-> None,
        ioErr |-> FALSE, afterErr |-> FALSE, n |-> 0, lost |-> {},
        recvd |-> <<>>, passes |-> <<>>, floor |-> None, noid |-> 0,
        discarded |-> {},
        trace |-> FALSE]

\* line 415 with last_seen_updated starting empty
InitialLastSeen_None(since_dt) == None

\* line 415
InitialLastSeen(since_dt) == since_dt

\* lines 453-454 writing the end date always
CheckpointValue_AlwaysEnd(last_seen_updated, end) == <<end, 0>>

\* lines 453-454: the value handed to set_since
CheckpointValue(last_seen_updated, end) ==
    IF last_seen_updated = None THEN <<end, 0>> ELSE last_seen_updated

SyncIdle ==
    /\ ClientIdle
    /\ ckfile = NoCheckpoint
    /\ tmpfile = NoCheckpoint
    /\ today = 0
    /\ clk = 0
    /\ pc = "idle"
    /\ loc = NoLoc
    /\ g = NoG

SyncInit ==
    /\ files = EmptyStore.files
    /\ index = EmptyStore.index
    /\ cache = EmptyStore.cache
    /\ last = NoLast
    /\ ClientIdle
    /\ ckfile = NoCheckpoint
    /\ tmpfile = NoCheckpoint
    /\ today \in Days
    /\ clk = 0
    /\ pc = "idle"
    /\ loc = NoLoc
    /\ g = NoG

Tick ==
    /\ pc = "idle"
    /\ today < MaxDay
    /\ today' = today + 1
    /\ UNCHANGED <<files, index, cache, last, oai, net, sel, tmpfile, ckfile, clk, pc, loc, g>>

\* lines 402-407 starting every cycle at the bootstrap date
CycleStart_Bootstrap(since_dt) == BootstrapDay

\* lines 402-407: the first day of the cycle
CycleStart(since_dt) == IF since_dt = None THEN BootstrapDay ELSE since_dt[1]

\* line 409 with a strict comparison
UpToDate_Strict(start, end) == start > end

\* line 409: nothing to harvest
UpToDate(start, end) == start >= end

\* lines 397-411: new store and checkpoint objects, the cycle's range
StartCycle(window_days) ==
    /\ pc = "idle"
    /\ clk < MaxRuns
    /\ LET since_dt == get_since(ckfile)
           start == CycleStart(since_dt)
           end == today
           failed == {i \in 1..Len(g.wins) : ~g.wins[i][3]}
           g0 == [NoG EXCEPT !.files0 = files, !.ckpt0 = ckfile,
                             !.seen = g.seen \cup g.flushed,
                             !.fallback = g.fallback, !.n = g.n,
                             !.lost = g.lost,
                             !.trace = g.trace,
                             !.floor = IF /\ g.trace
                                          /\ g.status = "done"
                                          /\ since_dt # None
                                          /\ \E i \in failed : g.wins[i][2] < since_dt[1]
                                       THEN <<since_dt[1]>> ELSE g.floor]
       IN  /\ cache' = EmptyStore.cache
           /\ IF CheckpointRaises(ckfile)
              THEN /\ loc' = NoLoc
                   /\ pc' = "idle"
                   /\ g' = [g0 EXCEPT !.status = "raised"]
              ELSE /\ loc' = [NoLoc EXCEPT !.since_dt = since_dt, !.start = start,
                                           !.end = end, !.cur = start,
                                           !.window_days = window_days,
                                           !.last_seen_updated = InitialLastSeen(since_dt)]
                   /\ IF UpToDate(start, end)
                      THEN /\ pc' = "idle"
                           /\ g' = [g0 EXCEPT !.status = "noop", !.ret = ReturnNone]
                      ELSE /\ pc' = "loop"
                           /\ g' = [g0 EXCEPT !.status = "running"]
    /\ UNCHANGED <<files, index, last, oai, net, sel, tmpfile, ckfile, today, clk>>

\* lines 416-419 with a window one day too long
BeginWindow_Long ==
    /\ pc = "loop"
    /\ loc.cur <= loc.end
    /\ loc' = [loc EXCEPT !.window_end = Min(loc.end, loc.cur + loc.window_days),
                          !.batch = <<>>]
    /\ pc' = "stream"
    /\ g' = [g EXCEPT !.winRecs = {}, !.afterErr = g.ioErr,
                      !.recvd = <<>>, !.passes = <<>>, !.noid = 0]
    /\ UNCHANGED <<files, index, cache, last, oai, net, sel, tmpfile, ckfile, today, clk>>

\* lines 416-419
BeginWindow ==
    /\ pc = "loop"
    /\ loc.cur <= loc.end
    /\ loc' = [loc EXCEPT !.window_end = Min(loc.end, loc.cur + (loc.window_days - 1)),
                          !.batch = <<>>]
    /\ pc' = "stream"
    /\ g' = [g EXCEPT !.winRecs = {}, !.afterErr = g.ioErr,
                      !.recvd = <<>>, !.passes = <<>>, !.noid = 0]
    /\ UNCHANGED <<files, index, cache, last, oai, net, sel, tmpfile, ckfile, today, clk>>

Flush(batch) ==
    LET st == append_records(Store, batch)
    IN  /\ files' = st.files
        /\ index' = st.index
        /\ cache' = st.cache

\* line 423 letting every record through
Usable_Any(obj) == TRUE

\* line 423: the record was parsed and has an id
Usable(obj) == obj.arxiv_id # NoId

\* lines 422-437: the body of the for loop, for one record of the stream
ProcessRecord(rec) ==
    /\ pc = "stream"
    /\ LET obj == _parse_record(rec)
       IN  IF ~Usable(obj)
           THEN /\ g' = [g EXCEPT !.n = @ + 1,
                                  !.noid = IF g.trace THEN @ + 1 ELSE @]
                /\ UNCHANGED <<files, index, cache, loc>>
           ELSE LET batch == Append(loc.batch, obj)
                IN  IF Len(batch) >= FlushThreshold
                    THEN /\ Flush(batch)
                         /\ loc' = [loc EXCEPT !.batch = <<>>,
                                               !.last_seen_updated = Track(batch, @)]
                         /\ g' = [g EXCEPT !.n = @ + 1,
                                           !.yielded = @ \cup {obj},
                                           !.flushed = @ \cup {batch[i] : i \in 1..Len(batch)},
                                           !.winRecs = @ \cup {batch[i] : i \in 1..Len(batch)},
                                           !.recvd = IF g.trace THEN Append(@, obj) ELSE @,
                                           !.passes = IF g.trace THEN Append(@, batch) ELSE @]
                    ELSE /\ loc' = [loc EXCEPT !.batch = batch]
                         /\ g' = [g EXCEPT !.n = @ + 1, !.yielded = @ \cup {obj},
                                           !.recvd = IF g.trace THEN Append(@, obj) ELSE @]
                         /\ UNCHANGED <<files, index, cache>>
    /\ UNCHANGED <<last, oai, net, sel, tmpfile, ckfile, today, clk, pc>>

\* lines 421-437: one record of the stream
Yield(rec) ==
    /\ g.n < MaxYield
    /\ ProcessRecord(rec)

\* lines 438-447 and 451 without the flush of the tail
StreamEnd_NoTail ==
    /\ pc = "stream"
    /\ loc' = [loc EXCEPT !.batch = <<>>, !.cur = loc.window_end + 1]
    /\ g' = [g EXCEPT !.winRecs = {},
                      !.okRecs = @ \cup g.winRecs,
                      !.wins = Append(@, <<loc.cur, loc.window_end, TRUE>>)]
    /\ pc' = "loop"
    /\ UNCHANGED <<files, index, cache, last, oai, net, sel, tmpfile, ckfile, today, clk>>

\* lines 438-447 and 451: the stream ends, the tail is flushed
StreamEnd ==
    /\ pc = "stream"
    /\ LET batch == loc.batch
           recs == {batch[i] : i \in 1..Len(batch)}
       IN  /\ IF batch # <<>>
              THEN Flush(batch)
              ELSE UNCHANGED <<files, index, cache>>
           /\ loc' = [loc EXCEPT !.batch = <<>>,
                                 !.last_seen_updated = Track(batch, @),
                                 !.cur = loc.window_end + 1]
           /\ g' = [g EXCEPT !.flushed = @ \cup recs,
                             !.winRecs = {},
                             !.okRecs = @ \cup g.winRecs \cup recs,
                             !.passes = IF g.trace /\ batch # <<>> THEN Append(@, batch) ELSE @,
                             !.wins = Append(@, <<loc.cur, loc.window_end, TRUE>>)]
    /\ pc' = "loop"
    /\ UNCHANGED <<last, oai, net, sel, tmpfile, ckfile, today, clk>>

\* lines 448-451 leaving the loop after a failed window
StreamFail_Abort ==
    /\ pc = "stream"
    /\ loc' = [loc EXCEPT !.cur = loc.end + 1]
    /\ g' = [g EXCEPT !.winRecs = {},
                      !.wins = Append(@, <<loc.cur, loc.window_end, FALSE>>)]
    /\ pc' = "loop"
    /\ UNCHANGED <<files, index, cache, last, oai, net, sel, tmpfile, ckfile, today, clk>>

\* lines 448-451 with the batch appended by the except clause
StreamFail_FlushTail ==
    /\ pc = "stream"
    /\ IF loc.batch # <<>> THEN Flush(loc.batch) ELSE UNCHANGED <<files, index, cache>>
    /\ loc' = [loc EXCEPT !.cur = loc.window_end + 1,
                          !.last_seen_updated = Track(loc.batch, @)]
    /\ g' = [g EXCEPT !.winRecs = {},
                      !.discarded = @ \cup {loc.batch[i] : i \in 1..Len(loc.batch)},
                      !.wins = Append(@, <<loc.cur, loc.window_end, FALSE>>)]
    /\ pc' = "loop"
    /\ UNCHANGED <<last, oai, net, sel, tmpfile, ckfile, today, clk>>

\* lines 448-451: list_records raised after exhausting its retries
StreamFail ==
    /\ pc = "stream"
    /\ loc' = [loc EXCEPT !.cur = loc.window_end + 1]
    /\ g' = [g EXCEPT !.winRecs = {},
                      !.discarded = IF g.trace
                                    THEN @ \cup {loc.batch[i] : i \in 1..Len(loc.batch)}
                                    ELSE @,
                      !.wins = Append(@, <<loc.cur, loc.window_end, FALSE>>)]
    /\ pc' = "loop"
    /\ UNCHANGED <<files, index, cache, last, oai, net, sel, tmpfile, ckfile, today, clk>>

\* lines 453-456
PersistCheckpoint ==
    /\ pc = "loop"
    /\ loc.cur > loc.end
    /\ LET fb == loc.last_seen_updated = None
           t == CheckpointValue(loc.last_seen_updated, loc.end)
       IN  /\ ckfile' = set_since(t, clk + 1)
           /\ loc' = [loc EXCEPT !.last_seen_updated = t]
           /\ g' = [g EXCEPT !.status = "done", !.ret = ReturnNone,
                             !.recvd = <<>>, !.passes = <<>>, !.noid = 0,
                             !.fallback = IF fb THEN t ELSE @]
    /\ clk' = clk + 1
    /\ pc' = "idle"
    /\ UNCHANGED <<files, index, cache, last, oai, net, sel, tmpfile, today>>

SyncNext ==
    \/ Tick
    \/ \E wd \in WindowDayChoices : StartCycle(wd)
    \/ BeginWindow
    \/ \E rec \in WireRecords : Yield(rec)
    \/ StreamEnd
    \/ StreamFail
    \/ PersistCheckpoint

SpecSync == SyncInit /\ [][SyncNext]_vars

\* ------------------------------------------ store write errors (OSError)
\* append_records raises in its k-th partition after j of its items: at
\* open() (j = 0), at a write, or in _save_index (j = all items).  The lines
\* written so far stay, the cached index holds them, index.json of that
\* partition is not rewritten.
AppendFailing(st, rows, k, j) ==
    LET keys == BucketKeys(rows, <<>>)
        done == AppendBuckets(st, rows, SubSeq(keys, 1, k - 1))
    IN  AppendPartition(done, keys[k], SubSeq(Bucket(rows, keys[k]), 1, j), FALSE)

FailPoints(rows) ==
    LET keys == BucketKeys(rows, <<>>)
    IN  {kj \in (1..Len(rows)) \X (0..Len(rows)) :
            /\ kj[1] <= Len(keys)
            /\ kj[2] <= Len(Bucket(rows, keys[kj[1]]))}

\* lines 428 and 448-451: the flush of a full batch raises; the except
\* clause of the window logs it and the loop goes on
YieldFlushFail(rec) ==
    /\ pc = "stream"
    /\ g.n < MaxYield
    /\ LET obj == _parse_record(rec)
           batch == Append(loc.batch, obj)
       IN  /\ obj.arxiv_id # NoId
           /\ Len(batch) >= FlushThreshold
           /\ \E kj \in FailPoints(batch) :
                 LET st == AppendFailing(Store, batch, kj[1], kj[2])
                 IN  files' = st.files /\ index' = st.index /\ cache' = st.cache
           /\ g' = [g EXCEPT !.n = @ + 1, !.yielded = @ \cup {obj},
                             !.recvd = IF g.trace THEN Append(@, obj) ELSE @,
                             !.winRecs = {}, !.ioErr = TRUE,
                             !.wins = Append(@, <<loc.cur, loc.window_end, FALSE>>)]
    /\ loc' = [loc EXCEPT !.cur = loc.window_end + 1]
    /\ pc' = "loop"
    /\ UNCHANGED <<last, oai, net, sel, tmpfile, ckfile, today, clk>>

\* lines 440 and 448-451: the flush of the tail raises
StreamEndFlushFail ==
    /\ pc = "stream"
    /\ loc.batch # <<>>
    /\ \E kj \in FailPoints(loc.batch) :
          LET st == AppendFailing(Store, loc.batch, kj[1], kj[2])
          IN  files' = st.files /\ index' = st.index /\ cache' = st.cache
    /\ g' = [g EXCEPT !.winRecs = {}, !.ioErr = TRUE,
                      !.wins = Append(@, <<loc.cur, loc.window_end, FALSE>>)]
    /\ loc' = [loc EXCEPT !.cur = loc.window_end + 1]
    /\ pc' = "loop"
    /\ UNCHANGED <<last, oai, net, sel, tmpfile, ckfile, today, clk>>

SyncIONext ==
    \/ SyncNext
    \/ \E rec \in WireRecords : YieldFlushFail(rec)
    \/ StreamEndFlushFail

SpecSyncIO == SyncInit /\ [][SyncIONext]_vars

\* ------------------------------------------------ batch specification
\* Cycles whose streams yield one record more than a full batch, so that a
\* window can flush a full batch and still hold a tail.
BatchWire ==
    [md : {TRUE}, id : {"a", "b", NoId}, created : {None}, updated : {DateText(1)}]
    \cup [md : {TRUE}, id : {"a"}, created : {None}, updated : {BadText, DateText(2)}]

BatchYield == FlushThreshold + 1

BatchInit ==
    /\ files = EmptyStore.files
    /\ index = EmptyStore.index
    /\ cache = EmptyStore.cache
    /\ last = NoLast
    /\ ClientIdle
    /\ ckfile = NoCheckpoint
    /\ tmpfile = NoCheckpoint
    /\ today \in Days
    /\ clk = 0
    /\ pc = "idle"
    /\ loc = NoLoc
    /\ g = [NoG EXCEPT !.trace = TRUE]

Receive(rec) ==
    /\ g.n < BatchYield
    /\ ProcessRecord(rec)

BatchNext ==
    \/ \E wd \in WindowDayChoices : StartCycle(wd)
    \/ BeginWindow
    \/ \E rec \in BatchWire : Receive(rec)
    \/ StreamEnd
    \/ StreamFail
    \/ PersistCheckpoint

SpecBatch == BatchInit /\ [][BatchNext]_vars

\* ---------------------------------------------- windows specification
\* Cycles over every window size from one day up, with streams that end
\* or fail without records.
MaxWindowDays == 3

WindowsNext ==
    \/ Tick
    \/ \E wd \in 1..MaxWindowDays : StartCycle(wd)
    \/ BeginWindow
    \/ StreamEnd
    \/ StreamFail
    \/ PersistCheckpoint

SpecWindows == SyncInit /\ [][WindowsNext]_vars

\* ------------------------------------------ window sizes specification
\* bulk_window_days is an int field without a constraint: the
\* configuration object can hold zero and negative sizes as well.  The
\* number of windows a cycle may visit is capped to keep the state space
\* finite.
AnyWindowDays == (0 - 1)..MaxWindowDays
MaxVisits == MaxDay + 2

VisitWindow ==
    /\ Len(g.wins) < MaxVisits
    /\ BeginWindow

SizesNext ==
    \/ Tick
    \/ \E wd \in AnyWindowDays : StartCycle(wd)
    \/ VisitWindow
    \/ StreamEnd
    \/ StreamFail
    \/ PersistCheckpoint

SpecSizes == SyncInit /\ [][SizesNext]_vars

\* ------------------------------------------------ client specification
ClientInit ==
    /\ files = EmptyStore.files
    /\ index = EmptyStore.index
    /\ cache = EmptyStore.cache
    /\ last = NoLast
    /\ SyncIdle

ClientNext ==
    \/ \E a \in ClientDays, b \in ClientDays : Call(a, b)
    \/ \E p \in 1..MaxPages : \E root \in Roots(p) : RequestOk(root)
    \/ \E kind \in Caught : RequestFail(kind)
    \/ \E kind \in Uncaught : RequestFailUncaught(kind)
    \/ YieldRecord
    \/ NextPage

SpecClient == ClientInit /\ [][ClientNext]_vars

\* ----------------------------------------------- backoff specification
\* Seconds and factors are exact fractions <<n, d>>, d > 0, in lowest terms.
RECURSIVE Gcd(_, _)
Gcd(a, b) == IF b = 0 THEN a ELSE Gcd(b, a % b)
Frac(n, d) == LET c == Gcd(n, d) IN <<n \div c, d \div c>>
FracLeq(x, y) == x[1] * y[2] <= y[1] * x[2]
FracMin(x, y) == IF FracLeq(x, y) THEN x ELSE y
FracMax(x, y) == IF FracLeq(x, y) THEN y ELSE x
FracMul(x, y) == Frac(x[1] * y[1], x[2] * y[2])
RECURSIVE FracPow(_, _)
FracPow(x, k) == IF k = 0 THEN <<1, 1>> ELSE FracMul(x, FracPow(x, k - 1))

\* line 101: the shortest sleep, 0.5 s
SleepFloor == <<1, 2>>

\* line 100: 1 + 0.1 * (2 * (byte / 255) - 1)
JitterFactor(byte) == Frac(2295 + 2 * byte, 2550)

\* lines 98-100 without the floor of line 101
_sleep_Unfloored(self, attempt, byte) ==
    LET delay == FracMin(FracPow(self.backoff_base, attempt), self.backoff_max)
    IN  IF self.jitter THEN FracMul(delay, JitterFactor(byte)) ELSE delay

\* lines 97-101: the time _sleep blocks for; byte is os.urandom(1)[0]
_sleep(self, attempt, byte) ==
    LET delay == FracMin(FracPow(self.backoff_base, attempt), self.backoff_max)
        jittered == IF self.jitter THEN FracMul(delay, JitterFactor(byte)) ELSE delay
    IN  FracMax(SleepFloor, jittered)

\* bulk_backoff_base, bulk_backoff_max: the defaults 1.5 and 30.0 and
\* other values that floating point holds exactly
BackoffBases == {<<1, 4>>, <<1, 2>>, <<3, 2>>, <<2, 1>>}
BackoffMaxes == {<<1, 4>>, <<4, 1>>, <<30, 1>>}
UrandomBytes == {0, 128, 255}

\* lines 89-94 and 399: a client and, of its list_records, the retry loop
\* of the page asked for: attempt as in line 122, slept the last time blocked
TimedClients ==
    [pc : {"try"}, page : {1}, attempt : {0}, slept : {None}, max_retries : {max_retries},
     backoff_base : BackoffBases, backoff_max : BackoffMaxes, jitter : BOOLEAN]

BackoffInit ==
    /\ files = EmptyStore.files
    /\ index = EmptyStore.index
    /\ cache = EmptyStore.cache
    /\ last = NoLast
    /\ ckfile = NoCheckpoint
    /\ tmpfile = NoCheckpoint
    /\ today = 0
    /\ clk = 0
    /\ pc = "idle"
    /\ loc = NoLoc
    /\ g = NoG
    /\ net = NoNet
    /\ sel = NoSel
    /\ oai \in TimedClients

\* lines 132-137 with 97-101: the request of the page fails
FailAndSleep(byte) ==
    /\ oai.pc = "try"
    /\ IF oai.attempt >= oai.max_retries
       THEN oai' = [oai EXCEPT !.pc = AfterExhausted]
       ELSE oai' = [oai EXCEPT !.slept = _sleep(oai, oai.attempt + 1, byte),
                               !.attempt = @ + 1]
    /\ UNCHANGED net
    /\ UNCHANGED nodeVars

\* lines 126-131, 147-150 and 122: the page arrives and names a next page
PageThenNext ==
    /\ oai.pc = "try"
    /\ oai.page < MaxPages
    /\ oai' = [oai EXCEPT !.page = @ + 1, !.attempt = 0, !.slept = None]
    /\ UNCHANGED net
    /\ UNCHANGED nodeVars

\* lines 126-131 and 151-153: the last page arrives
PageThenEnd ==
    /\ oai.pc = "try"
    /\ oai' = [oai EXCEPT !.pc = "done"]
    /\ UNCHANGED net
    /\ UNCHANGED nodeVars

BackoffNext ==
    \/ \E byte \in UrandomBytes : FailAndSleep(byte)
    \/ PageThenNext
    \/ PageThenEnd

SpecBackoff == BackoffInit /\ [][BackoffNext]_vars

\* ------------------------------------------------ process interruption
\* The process dies (SIGKILL, power loss, KeyboardInterrupt) inside
\* _incremental_sync: the locals, the batch and the store object's cache
\* are gone, the files are as the last completed system call left them.
Interrupted(st, recs) ==
    /\ files' = st.files
    /\ index' = st.index
    /\ cache' = EmptyStore.cache
    /\ pc' = "idle"
    /\ loc' = [loc EXCEPT !.batch = <<>>]
    /\ g' = [g EXCEPT !.status = "crashed", !.winRecs = {},
                      !.n = @ + Cardinality(recs),
                      !.yielded = @ \cup recs,
                      !.lost = @ \cup g.yielded \cup recs]
    /\ UNCHANGED <<last, oai, net, sel, tmpfile, ckfile, today, clk>>

\* between two records, between two windows, or before line 455
Crash ==
    /\ pc \in {"loop", "stream"}
    /\ Interrupted(Store, {})

\* inside append_records of line 428: in a partition after some of its
\* lines are written and before _save_index (line 231) replaces index.json
CrashInFlush(rec) ==
    /\ pc = "stream"
    /\ g.n < MaxYield
    /\ LET obj == _parse_record(rec)
           batch == Append(loc.batch, obj)
       IN  /\ obj.arxiv_id # NoId
           /\ Len(batch) >= FlushThreshold
           /\ \E kj \in FailPoints(batch) :
                 Interrupted(AppendFailing(Store, batch, kj[1], kj[2]), {obj})

\* inside append_records of line 440
CrashInTailFlush ==
    /\ pc = "stream"
    /\ loc.batch # <<>>
    /\ \E kj \in FailPoints(loc.batch) :
          Interrupted(AppendFailing(Store, loc.batch, kj[1], kj[2]), {})

SyncCrashNext ==
    \/ SyncNext
    \/ Crash
    \/ \E rec \in WireRecords : CrashInFlush(rec)
    \/ CrashInTailFlush

SpecSyncCrash == SyncInit /\ [][SyncCrashNext]_vars

\* ------------------------------------------- checkpoint specification
\* set_since and save step by step, in cycles whose windows are empty
\* lines 453-455 and 84-85: set_since has set the keys of self.state
PersistBegin ==
    /\ pc = "loop"
    /\ loc.cur > loc.end
    /\ LET fb == loc.last_seen_updated = None
           t == CheckpointValue(loc.last_seen_updated, loc.end)
       IN  /\ loc' = [loc EXCEPT !.last_seen_updated = t]
           /\ g' = [g EXCEPT !.fallback = IF fb THEN t ELSE @]
    /\ pc' = "save"
    /\ UNCHANGED <<files, index, cache, last, oai, net, sel, ckfile, tmpfile, today, clk>>

\* the file save is writing: self.state as set_since left it
Saving == set_since(loc.last_seen_updated, clk + 1)

\* lines 69-70: open(tmp, "w") creates or empties the temporary file
SaveOpen ==
    /\ pc = "save"
    /\ tmpfile' = [Saving EXCEPT !.len = 0]
    /\ pc' = "dump"
    /\ UNCHANGED <<files, index, cache, last, oai, net, sel, ckfile, today, clk, loc, g>>

\* line 71: the next piece of the text reaches the temporary file
SaveWrite ==
    /\ pc = "dump"
    /\ tmpfile.len < Len(json_dump(tmpfile))
    /\ tmpfile' = [tmpfile EXCEPT !.len = @ + 1]
    /\ UNCHANGED <<files, index, cache, last, oai, net, sel, ckfile, today, clk, pc, loc, g>>

\* line 72 reached whatever the temporary file holds
Closed_Early(f) == TRUE

\* lines 70-71: the with block is left, the text is written and the file closed
Closed(f) == f.len = Len(json_dump(f))

\* line 72: os.replace(tmp, self.path)
SaveReplace ==
    /\ pc = "dump"
    /\ Closed(tmpfile)
    /\ ckfile' = tmpfile
    /\ tmpfile' = NoCheckpoint
    /\ clk' = clk + 1
    /\ pc' = "idle"
    /\ g' = [g EXCEPT !.status = "done", !.ret = ReturnNone]
    /\ UNCHANGED <<files, index, cache, last, oai, net, sel, today, loc>>

\* the process dies inside set_since or save; time passes until the next run
CrashInSave ==
    /\ pc \in {"save", "dump"}
    /\ cache' = EmptyStore.cache
    /\ pc' = "idle"
    /\ clk' = clk + 1
    /\ g' = [g EXCEPT !.status = "crashed"]
    /\ UNCHANGED <<files, index, last, oai, net, sel, ckfile, tmpfile, today, loc>>

CkptNext ==
    \/ Tick
    \/ \E wd \in WindowDayChoices : StartCycle(wd)
    \/ BeginWindow
    \/ StreamEnd
    \/ StreamFail
    \/ PersistBegin
    \/ SaveOpen
    \/ SaveWrite
    \/ SaveReplace
    \/ CrashInSave

SpecCkpt == SyncInit /\ [][CkptNext]_vars

\* ------------------------------------ unparsable checkpoint specification
\* the sync cycle started on a checkpoint file that is cut short, so that
\* json.load raises on its text, or on no file
UnparsableCheckpoints ==
    {[set_since(<<1, 0>>, 1) EXCEPT !.len = k] : k \in 0..3}

\* the records the upstream sends here
CkptWire ==
    [md : {TRUE}, id : {"a"}, created : {None}, updated : {DateText(0), DateText(MaxDay)}]

CorruptInit ==
    /\ files = EmptyStore.files
    /\ index = EmptyStore.index
    /\ cache = EmptyStore.cache
    /\ last = NoLast
    /\ ClientIdle
    /\ ckfile \in {NoCheckpoint} \cup UnparsableCheckpoints
    /\ tmpfile = NoCheckpoint
    /\ today \in Days
    /\ clk = 0
    /\ pc = "idle"
    /\ loc = NoLoc
    /\ g = NoG

CorruptNext ==
    \/ Tick
    \/ \E wd \in WindowDayChoices : StartCycle(wd)
    \/ BeginWindow
    \/ \E rec \in CkptWire : Yield(rec)
    \/ StreamEnd
    \/ StreamFail
    \/ PersistCheckpoint

SpecCorrupt == CorruptInit /\ [][CorruptNext]_vars

\* ------------------------------------------------ select specification
\* The calls of _select_locally: frames of up to MaxSelRows rows that differ
\* in id, updated date and title under a small choice of criteria, and
\* frames of one row with every title, abstract and keyword list.
SelTexts == {<<>>, <<"a">>, <<"B">>}
SelTerms == {<<"A">>, <<"b">>, <<"a", "b">>}

PlainRow(id, updated, title, abstract) ==
    [arxiv_id |-> id, updated |-> updated, created |-> updated,
     title |-> title, abstract |-> abstract,
     categories |-> NoCats, primary_category |-> "cs.AI"]

SelCfg(incl, excl, limit) ==
    [select_keywords_include |-> incl, select_keywords_exclude |-> excl,
     select_categories |-> {}, select_order_by |-> "updated_desc",
     select_limit |-> limit]

OrderRows == {PlainRow(id, u, t, <<>>) : id \in SelIds, u \in SelDays, t \in {<<"a">>, <<"B">>}}
OrderCfgs == {SelCfg(incl, {}, limit) : incl \in {{}, {<<"A">>}}, limit \in 0..2}

KeywordRows == {PlainRow("a", 0, t, ab) : t \in SelTexts, ab \in SelTexts}
KeywordCfgs == {SelCfg(incl, excl, 0) : incl \in SUBSET SelTerms, excl \in SUBSET SelTerms}

\* Rows as _parse_record writes them, with the list of categories and its
\* first entry as primary category ("" for an empty list), and rows of
\* lines that have no categories key; allow-lists over the same categories.
SelCategories == {"cs.AI", "cs.LG"}
WithList(items, primary) ==
    [PlainRow("a", 0, <<>>, <<>>) EXCEPT
        !.categories = [list |-> TRUE, items |-> items], !.primary_category = primary]
CategoryRows ==
    {WithList({}, "")}
    \cup UNION {{WithList(items, c) : c \in items} : items \in (SUBSET SelCategories) \ {{}}}
    \cup {[PlainRow("a", 0, <<>>, <<>>) EXCEPT !.primary_category = c] :
              c \in SelCategories \cup {""}}
CategoryCfgs ==
    {[SelCfg({}, {}, 0) EXCEPT !.select_categories = cats] : cats \in SUBSET SelCategories}

\* Rows that differ in id and created date (NaT for a record without
\* created), ordered by created.
CreatedRows ==
    {[PlainRow(id, 1, <<>>, <<>>) EXCEPT !.created = c] : id \in SelIds, c \in SelDays \cup {NaT}}
CreatedCfgs ==
    {[SelCfg({}, {}, limit) EXCEPT !.select_order_by = "created_desc"] : limit \in 0..1}

\* Two versions of one id that differ in updated date and in their only
\* category, under an allow-list of one category.
VersionRows ==
    {[WithList({c}, c) EXCEPT !.updated = u, !.created = u] : u \in SelDays, c \in SelCategories}
VersionCfgs ==
    {[SelCfg({}, {}, 0) EXCEPT !.select_categories = {c}] : c \in SelCategories}

\* select_limit as the configuration gives it: a number, or nothing, and
\* then the default of line 24 applies (500 in the program).
DefaultLimit == 2
Unset == [set |-> FALSE, value |-> 0]
Given(v) == [set |-> TRUE, value |-> v]
select_limit(arg) == IF arg.set THEN arg.value ELSE DefaultLimit

LimitIds == {"a", "b", "c"}
LimitRows == {PlainRow(id, u, <<>>, <<>>) : id \in LimitIds, u \in SelDays}
LimitArgs == {Unset} \cup {Given(v) : v \in (0 - 1)..DefaultLimit}

SelCall(df, cfg, arg) ==
    [NoSel EXCEPT !.state = "called", !.df = df, !.limit = arg,
                  !.cfg = [cfg EXCEPT !.select_limit = select_limit(arg)]]

SelectInit ==
    /\ files = EmptyStore.files
    /\ index = EmptyStore.index
    /\ cache = EmptyStore.cache
    /\ last = NoLast
    /\ oai = NoCall
    /\ net = NoNet
    /\ ckfile = NoCheckpoint
    /\ tmpfile = NoCheckpoint
    /\ today = 0
    /\ clk = 0
    /\ pc = "idle"
    /\ loc = NoLoc
    /\ g = NoG
    /\ \/ \E k \in 0..MaxSelRows : \E df \in [1..k -> OrderRows] : \E cfg \in OrderCfgs :
             sel = SelCall(df, cfg, Given(cfg.select_limit))
       \/ \E row \in KeywordRows : \E cfg \in KeywordCfgs :
             sel = SelCall(<<row>>, cfg, Given(cfg.select_limit))
       \/ \E row \in CategoryRows : \E cfg \in CategoryCfgs :
             sel = SelCall(<<row>>, cfg, Given(cfg.select_limit))
       \/ \E k \in 0..MaxSelRows : \E df \in [1..k -> CreatedRows] : \E cfg \in CreatedCfgs :
             sel = SelCall(df, cfg, Given(cfg.select_limit))
       \/ \E k \in 0..MaxSelRows : \E df \in [1..k -> LimitRows] : \E arg \in LimitArgs :
             sel = SelCall(df, SelCfg({}, {}, 0), arg)
       \/ \E df \in [1..2 -> VersionRows] : \E cfg \in VersionCfgs :
             sel = SelCall(df, cfg, Given(cfg.select_limit))

\* exec, line 478
Select ==
    /\ sel.state = "called"
    /\ \E run \in _select_locally(sel.df, sel.cfg) :
          sel' = [sel EXCEPT !.state = "returned", !.run = run]
    /\ UNCHANGED <<files, index, cache, last, ckfile, tmpfile, today, clk, pc, loc, g, oai, net>>

SelectNext == Select

SpecSelect == SelectInit /\ [][SelectNext]_vars

\* ------------------------------------------------ store specification

StoreInit ==
    /\ files = EmptyStore.files
    /\ index = EmptyStore.index
    /\ cache = EmptyStore.cache
    /\ last = NoLast
    /\ SyncIdle

DoAppend(rows, kind) ==
    LET st == append_records(Store, rows)
    IN  /\ files' = st.files
        /\ index' = st.index
        /\ cache' = st.cache
        /\ last' = [kind |-> kind, rows |-> rows, a |-> 0, b |-> 0,
                    n |-> IF kind = "append" THEN last.n + Len(rows) ELSE last.n]
        /\ UNCHANGED syncVars

Append_(rows) ==
    /\ last.kind # "read"
    /\ last.n + Len(rows) <= MaxTotal
    /\ DoAppend(rows, "append")

AppendAgain ==
    /\ last.kind = "append"
    /\ DoAppend(last.rows, "again")

NewStore ==
    /\ last.kind \in {"append", "again"}
    /\ cache' = EmptyStore.cache
    /\ last' = [kind |-> "new", rows |-> <<>>, a |-> 0, b |-> 0, n |-> last.n]
    /\ UNCHANGED <<files, index>>
    /\ UNCHANGED syncVars

\* exec, lines 475-476: read_range on a new store object
ReadRange(start_date, end_date) ==
    /\ last.kind \in {"none", "new"}
    /\ last' = [kind |-> "read", rows |-> read_range(files, start_date, end_date),
                a |-> start_date, b |-> end_date, n |-> last.n]
    /\ UNCHANGED <<files, index, cache>>
    /\ UNCHANGED syncVars

StoreNext ==
    \/ \E k \in 0..Min(MaxRows, MaxTotal - last.n) : \E rows \in [1..k -> Rows] : Append_(rows)
    \/ AppendAgain
    \/ NewStore
    \/ \E a \in Days, b \in Days : ReadRange(a, b)

SpecStore == StoreInit /\ [][StoreNext]_vars

\* ------------------------------------------- timestamps specification
\* updated texts of one day with an hour and, some, a UTC offset
StampHours == {0, 1, 2}
StampOffsets == {<<>>, <<Sign.plus, 0>>, <<Sign.minus, 0>>, <<Sign.plus, 1>>, <<Sign.plus, 2>>,
                 <<Sign.minus, 1>>}
StampTexts ==
    {DateText(d) : d \in {0, 1}}
    \cup {DateText(0) \o <<h>> \o off : h \in StampHours, off \in StampOffsets}
StampRecords == [md : {TRUE}, id : {"a"}, created : {None}, updated : StampTexts]

StampInit ==
    /\ files = EmptyStore.files
    /\ index = EmptyStore.index
    /\ cache = EmptyStore.cache
    /\ last = NoLast
    /\ SyncIdle

\* lines 422-428 for a batch of one record: the record is parsed and
\* handed to append_records
Harvest(rec) ==
    /\ last.n < MaxTotal
    /\ LET obj == _parse_record(rec)
           st == append_records(Store, <<obj>>)
       IN  /\ files' = st.files
           /\ index' = st.index
           /\ cache' = st.cache
           /\ last' = [kind |-> "append", rows |-> <<obj>>, a |-> 0, b |-> 0,
                       n |-> last.n + 1]
    /\ UNCHANGED syncVars

StampNext ==
    \/ \E rec \in StampRecords : Harvest(rec)

SpecStamps == StampInit /\ [][StampNext]_vars

\* ------------------------------------------------- node specification
\* One execution of the node: exec runs the sync cycle, then reads the
\* caller's range from a new store object and selects.  The checkpoint file
\* the execution finds is absent, or holds the end date that the cycle of
\* the day before wrote after an empty harvest.
NodeInit ==
    /\ files = EmptyStore.files
    /\ index = EmptyStore.index
    /\ cache = EmptyStore.cache
    /\ last = NoLast
    /\ ClientIdle
    /\ today \in Days
    /\ ckfile \in {NoCheckpoint} \cup {set_since(<<d, 0>>, 0) : d \in {today - 1} \cap (1..MaxDay)}
    /\ tmpfile = NoCheckpoint
    /\ clk = 0
    /\ pc = "idle"
    /\ loc = NoLoc
    /\ g = NoG

\* exec, lines 469-470
NodeSync(window_days) ==
    /\ g.status = "none"
    /\ last.kind = "none"
    /\ StartCycle(window_days)

\* exec, lines 469-472, reaching line 474 before the cycle has ended
SyncEnded_Any == TRUE

\* exec, lines 469-472: _incremental_sync has returned or raised
SyncEnded == pc = "idle" /\ g.status \in {"done", "noop", "raised"}

\* prep, line 460: the range of _determine_date_range, yesterday or a
\* configured range
DateRanges == {<<today - 1, today - 1>>, <<BootstrapDay, today>>}

\* exec, lines 475-476
NodeRead ==
    /\ SyncEnded
    /\ sel.state = "none"
    /\ \E r \in DateRanges : r[1] >= 0 /\ ReadRange(r[1], r[2])

\* read_range, lines 259-263: the frame of the rows read
ToFrame(rows) ==
    [i \in 1..Len(rows) |->
        PlainRow(rows[i].arxiv_id, fromisoformat(rows[i].updated)[1], <<>>, <<>>)]

\* exec, lines 477-478: _select_locally is called with the frame
NodeSelect ==
    /\ last.kind = "read"
    /\ sel.state = "none"
    /\ sel' = SelCall(ToFrame(last.rows), SelCfg({}, {}, 0), Unset)
    /\ UNCHANGED <<files, index, cache, last, ckfile, tmpfile, today, clk, pc, loc, g, oai, net>>

NodeNext ==
    \/ \E wd \in WindowDayChoices : NodeSync(wd)
    \/ BeginWindow
    \/ \E rec \in WireRecords : Yield(rec)
    \/ StreamEnd
    \/ StreamFail
    \/ PersistCheckpoint
    \/ NodeRead
    \/ NodeSelect
    \/ Select

SpecNode == NodeInit /\ [][NodeNext]_vars

\* ------------------------------------------------ dedup specification
\* Two records r1, r2 of one id with different updated values are appended
\* to an empty store, r1 first: in one call (last.a = 1) or in two calls
\* (last.a = 2).
DedupInit ==
    /\ files = EmptyStore.files
    /\ index = EmptyStore.index
    /\ cache = EmptyStore.cache
    /\ SyncIdle
    /\ \E id \in Ids, u1 \in IsoStrings, u2 \in IsoStrings, mode \in {1, 2} :
          /\ u1 # u2
          /\ last = [kind |-> "pair",
                     rows |-> <<[arxiv_id |-> id, updated |-> u1],
                                [arxiv_id |-> id, updated |-> u2]>>,
                     a |-> mode, b |-> 0, n |-> 0]

DedupOneCall ==
    /\ last.kind = "pair" /\ last.a = 1
    /\ LET st == append_records(Store, last.rows)
       IN  files' = st.files /\ index' = st.index /\ cache' = st.cache
    /\ last' = [last EXCEPT !.kind = "pair_done"]
    /\ UNCHANGED syncVars

DedupFirstCall ==
    /\ last.kind = "pair" /\ last.a = 2 /\ last.b = 0
    /\ LET st == append_records(Store, <<last.rows[1]>>)
       IN  files' = st.files /\ index' = st.index /\ cache' = st.cache
    /\ last' = [last EXCEPT !.b = 1]
    /\ UNCHANGED syncVars

DedupSecondCall ==
    /\ last.kind = "pair" /\ last.a = 2 /\ last.b = 1
    /\ LET st == append_records(Store, <<last.rows[2]>>)
       IN  files' = st.files /\ index' = st.index /\ cache' = st.cache
    /\ last' = [last EXCEPT !.kind = "pair_done"]
    /\ UNCHANGED syncVars

DedupNext == DedupOneCall \/ DedupFirstCall \/ DedupSecondCall

SpecDedup == DedupInit /\ [][DedupNext]_vars

\* ---------------------------------------------------------- properties
AllLines == {<<p, i>> : p \in PartKeys, i \in 1..MaxTotal + MaxYield + 2}
LinesOf(fs) == {pi \in AllLines : pi[2] <= Len(fs[pi[1]])}
HasLine(fs, r) == \E p \in PartKeys : \E i \in 1..Len(fs[p]) : fs[p][i] = r
Appended(p) == SubSeq(files'[p], Len(files[p]) + 1, Len(files'[p]))
IsAppendStep == last'.kind \in {"append", "again"}

\* C1: a second append_records call with the same rows writes no line and
\* changes no index entry, on disk or in the store object's cache.
C1_IdempotentAppend ==
    [][last'.kind = "again" =>
          files' = files /\ index' = index /\ cache' = cache]_vars

C1_Witness ==
    /\ last.kind = "again"
    /\ \E i \in 1..Len(last.rows) : HasLine(files, last.rows[i])

\* The newer and the older record of the pair
PairNew == IF StrLess(last.rows[1].updated, last.rows[2].updated)
           THEN last.rows[2] ELSE last.rows[1]
PairOld == IF StrLess(last.rows[1].updated, last.rows[2].updated)
           THEN last.rows[1] ELSE last.rows[2]
PairIndexed ==
    /\ PairNew.arxiv_id \in DOMAIN index[PartitionOf(PairNew)]
    /\ index[PartitionOf(PairNew)][PairNew.arxiv_id] = PairNew.updated

\* C2 as stated: after both records are appended, in either order, only the
\* t2 version is in the store and the index maps the id to t2.
C2_OnlyNewestRetained ==
    last.kind = "pair_done" =>
        /\ HasLine(files, PairNew)
        /\ ~HasLine(files, PairOld)
        /\ PairIndexed

\* C2 amended: the t2 version is stored and the index of its partition maps
\* the id to t2; the t1 version is absent exactly when both lie in the same
\* month partition and t2 was appended first.
C2_NewestIndexed ==
    last.kind = "pair_done" =>
        /\ HasLine(files, PairNew)
        /\ PairIndexed
        /\ ~HasLine(files, PairOld) <=>
              /\ PartitionOf(PairOld) = PartitionOf(PairNew)
              /\ last.rows[1] = PairNew

C2_Witness ==
    /\ last.kind = "pair_done"
    /\ last.rows[1] = PairNew
    /\ PartitionOf(PairOld) = PartitionOf(PairNew)
    /\ ~HasLine(files, PairOld)

\* The item at position i of a partition's bucket is newer than the value
\* the index held for its id when the call began and than every earlier
\* item of its id: the index at the moment the item is examined holds the
\* largest of these.
NewerThanIndexed(items, idx0, i) ==
    /\ items[i].arxiv_id # NoId
    /\ items[i].arxiv_id \in DOMAIN idx0 =>
          StrLess(idx0[items[i].arxiv_id], items[i].updated)
    /\ \A j \in 1..(i - 1) :
          items[j].arxiv_id = items[i].arxiv_id =>
              StrLess(items[j].updated, items[i].updated)

RECURSIVE KeepNewer(_, _, _)
KeepNewer(items, idx0, i) ==
    IF i > Len(items) THEN <<>>
    ELSE (IF NewerThanIndexed(items, idx0, i) THEN <<items[i]>> ELSE <<>>)
         \o KeepNewer(items, idx0, i + 1)

\* C3: append_records writes a record with an id if and only if, when it is
\* examined, the partition index has no entry for the id or an entry that
\* is strictly older; the lines are appended in the order of the rows.
C3_WrittenIffNewer ==
    [][IsAppendStep =>
          \A p \in PartKeys :
              /\ SubSeq(files'[p], 1, Len(files[p])) = files[p]
              /\ Appended(p) = KeepNewer(Bucket(last'.rows, p),
                                         _load_index(Store, p), 1)]_vars

C3_Witness ==
    /\ last.kind = "append"
    /\ \E i \in 1..Len(last.rows) :
          /\ last.rows[i].arxiv_id # NoId
          /\ ~HasLine(files, last.rows[i])
    /\ \E i \in 1..Len(last.rows) : HasLine(files, last.rows[i])

IndexGrows(old, new) ==
    \A id \in DOMAIN old :
        /\ id \in DOMAIN new
        /\ old[id] = new[id] \/ StrLess(old[id], new[id])
        /\ fromisoformat(old[id]) # None =>
              /\ fromisoformat(new[id]) # None
              /\ DtLeq(fromisoformat(old[id]), fromisoformat(new[id]))

\* C4: over append_records calls on one store an index entry is never
\* removed and never replaced by an older value, in index.json and in the
\* cache of the store object.
C4_IndexMonotonic ==
    [][/\ \A p \in PartKeys : IndexGrows(index[p], index'[p])
       /\ \A p \in DOMAIN cache \cap DOMAIN cache' :
              IndexGrows(cache[p], cache'[p])]_vars

C4_Witness ==
    \E p \in PartKeys : \E i \in 1..Len(files[p]) :
        /\ files[p][i].arxiv_id \in DOMAIN index[p]
        /\ StrLess(files[p][i].updated, index[p][files[p][i].arxiv_id])

DateIn(r, a, b) == \E d \in a..b : \E h \in 0..23 : r.updated = isoformat(<<d, h>>)
Count(seq, r) == Cardinality({i \in 1..Len(seq) : seq[i] = r})
Stored(r) == Cardinality({pi \in LinesOf(files) : files[pi[1]][pi[2]] = r})

\* C9: read_range(A, B) with A <= B returns each stored record whose
\* updated date is in [A, B], as often as it is stored, and nothing else.
C9_ReadRangeExact ==
    last.kind = "read" /\ last.a <= last.b =>
        \A r \in Rows :
            Count(last.rows, r) = IF DateIn(r, last.a, last.b) THEN Stored(r) ELSE 0

C9_Witness ==
    /\ last.kind = "read"
    /\ last.a <= last.b
    /\ \E p \in PartKeys : \E i, j \in 1..Len(files[p]) :
          /\ DateIn(files[p][i], last.a, last.b)
          /\ ~DateIn(files[p][j], last.a, last.b)
          /\ Count(last.rows, files[p][i]) = 1
          /\ Count(last.rows, files[p][j]) = 0

\* ------------------------------------------------- sync cycle properties
Since == get_since(ckfile)
CycleDone == g.status = "done"
Upds(recs) == {fromisoformat(r.updated) : r \in recs} \ {None}
IsMaxOf(t, ts) == t \in ts /\ \A u \in ts : DtLeq(u, t)
StoredUpds == {fromisoformat(files[pi[1]][pi[2]].updated) : pi \in LinesOf(files)} \ {None}

\* C5: a checkpoint write never lowers last_updated: the value written is
\* at least the value the cycle read at INIT, which is the value the file
\* held until the write.
C5_CheckpointMonotonic ==
    [][ckfile' # ckfile =>
          /\ get_since(ckfile') # None
          /\ loc.since_dt = Since
          /\ Since # None => DtLeq(Since, get_since(ckfile'))]_vars

C5_Witness ==
    /\ CycleDone
    /\ loc.since_dt # None
    /\ DtLess(loc.since_dt, Since)

\* C6 as stated: once written, the checkpoint's last_updated is at most the
\* largest updated value stored in any partition.
C6_CheckpointAtMostStored ==
    ckfile.exists => \E u \in StoredUpds : DtLeq(Since, u)

\* C6 amended: the checkpoint's last_updated is at most the largest stored
\* updated value, or it is the end date a cycle wrote because it had no
\* checkpoint and observed no record.
C6_CheckpointStoredOrFallback ==
    ckfile.exists =>
        \/ \E u \in StoredUpds : DtLeq(Since, u)
        \/ g.fallback # None /\ Since = g.fallback

C6_Witness ==
    /\ CycleDone
    /\ g.fallback = None
    /\ IsMaxOf(Since, StoredUpds)

Failed == \E i \in 1..Len(g.wins) : ~g.wins[i][3]

\* the windows visited are the consecutive windows of [start, end]
WindowsInOrder ==
    /\ g.wins # <<>>
    /\ g.wins[1][1] = loc.start
    /\ g.wins[Len(g.wins)][2] = loc.end
    /\ \A i \in 1..Len(g.wins) :
          /\ g.wins[i][2] = Min(loc.end, g.wins[i][1] + loc.window_days - 1)
          /\ i < Len(g.wins) => g.wins[i + 1][1] = g.wins[i][2] + 1

FilesKept == \A p \in PartKeys : SubSeq(files[p], 1, Len(g.files0[p])) = g.files0[p]

\* the record, or a version of its id that is as new or newer, is a line
\* of the record's partition
StoredOrSuperseded(r) ==
    \E i \in 1..Len(files[PartitionOf(r)]) :
        /\ files[PartitionOf(r)][i].arxiv_id = r.arxiv_id
        /\ StrGeq(files[PartitionOf(r)][i].updated, r.updated)

\* C7 as stated: with a failed window the other windows are still visited
\* in order, their records are in the store (in the version given or in a
\* newer one), the lines written before stay, and the checkpoint is the
\* largest updated value of the completed windows.
C7_FailedWindowSkipped ==
    CycleDone /\ Failed =>
        /\ WindowsInOrder
        /\ FilesKept
        /\ \A r \in g.okRecs : StoredOrSuperseded(r)
        /\ Upds(g.okRecs) # {} => IsMaxOf(Since, Upds(g.okRecs))

\* C7 amended: the records of the completed windows are stored or
\* superseded by a line of the same id that is as new or newer, and the
\* checkpoint is the largest of the value read at INIT and the updated
\* values of all records flushed in the cycle, or the end date if there is
\* neither.
C7_FailedWindowBestEffort ==
    CycleDone /\ Failed =>
        /\ WindowsInOrder
        /\ FilesKept
        /\ \A r \in g.okRecs : StoredOrSuperseded(r)
        /\ LET seen == Upds(g.flushed) \cup ({loc.since_dt} \ {None})
           IN  IF seen = {} THEN Since = <<loc.end, 0>> ELSE IsMaxOf(Since, seen)

C7_Witness ==
    /\ CycleDone
    /\ \E i, j \in 1..Len(g.wins) : i < j /\ ~g.wins[i][3] /\ g.wins[j][3]
    /\ g.okRecs # {}
    /\ IsMaxOf(Since, Upds(g.okRecs))
    /\ \A r \in g.okRecs : HasLine(files, r)

\* C8: after append_records raised in a cycle, no further window is begun,
\* the cycle does not complete and the checkpoint file is as the cycle
\* found it.
C8_StoreErrorAborts ==
    g.ioErr =>
        /\ ~g.afterErr
        /\ ~CycleDone
        /\ ckfile = g.ckpt0

\* the upstream of this cycle returned only records that earlier cycles
\* flushed to the store
SameUpstream ==
    /\ g.ckpt0.exists
    /\ g.status \in {"done", "noop"}
    /\ g.yielded \subseteq g.seen

\* C10 as stated: such a re-run appends no line and leaves the checkpoint
\* file unchanged.
C10_RerunChangesNothing ==
    SameUpstream => files = g.files0 /\ ckfile = g.ckpt0

\* C10 amended: such a re-run appends no line and leaves last_updated
\* unchanged; last_run is rewritten unless the re-run is a no-op.
C10_RerunKeepsLastUpdated ==
    SameUpstream =>
        /\ files = g.files0
        /\ ckfile.last_updated_iso = g.ckpt0.last_updated_iso
        /\ CycleDone <=> ckfile.last_run # g.ckpt0.last_run

C10_Witness ==
    /\ SameUpstream
    /\ CycleDone
    /\ g.yielded # {}
    /\ \E r \in g.yielded : HasLine(files, r)

\* every entry of an index.json names a line of its partition's data file
IndexValid ==
    \A p \in PartKeys : \A id \in DOMAIN index[p] :
        \E i \in 1..Len(files[p]) :
            files[p][i] = [arxiv_id |-> id, updated |-> index[p][id]]

NoDuplicateLines ==
    \A p \in PartKeys : \A i, j \in 1..Len(files[p]) :
        i # j => files[p][i] # files[p][j]

\* a cycle ran to its end, with no failed window, on an upstream that
\* returned again every record the interrupted cycles were given
RecoveredRun ==
    /\ CycleDone
    /\ ~Failed
    /\ g.lost # {}
    /\ g.lost \subseteq g.yielded

CrashKeepsDurableState ==
    g.status = "crashed" => FilesKept /\ IndexValid /\ ckfile = g.ckpt0

RecoveredRunStoresAll ==
    RecoveredRun => \A r \in g.yielded : StoredOrSuperseded(r)

\* C11: when the process is interrupted in a cycle, the lines and index
\* entries written so far stay valid and the checkpoint file is as the
\* cycle found it; after a later cycle on the same upstream every record
\* is stored and no partition file holds a record line twice.
C11_CrashRecovery ==
    /\ CrashKeepsDurableState
    /\ RecoveredRunStoresAll
    /\ RecoveredRun => NoDuplicateLines

\* ---------------------------------------------------- client properties
\* the step sends a request
Requested == net' # NoNet /\ <<net'.asked, net'.tries>> # <<net.asked, net.tries>>

\* the continuation token a resumptionToken element carries: its text
\* without the surrounding whitespace, None when there is no text
TokenOf(elt) == IF elt.present THEN strip(elt.text) ELSE None

\* Requests that fail in one of the given ways are retried with the same
\* query until max_retries retries are used up; a request never asks for a
\* page already received.
RetryPolicy(kinds) ==
    Requested =>
        /\ net'.tries <= max_retries + 1
        /\ net'.asked = net.served + 1
        /\ net.outcome \in kinds => net'.sent = net.sent
        /\ net'.outcome \in kinds /\ net'.tries <= max_retries =>
              /\ oai'.pc = "try"
              /\ oai'.query = net'.sent

RetriesCaught == [][RetryPolicy(Caught)]_vars

\* C12: after each transient failure of a page request the identical
\* request is issued again, at most max_retries times for a page; no
\* received page is requested again and the stream does not restart.
C12_RetriesSameRequest == [][RetryPolicy(Failures)]_vars

EndsComplete ==
    oai.pc = "done" =>
        /\ net.outcome = "ok"
        /\ TokenOf(net.rt_elt) = None
        /\ net.out = net.got

Exhausted == net.outcome \in Caught /\ net.tries = max_retries + 1

IdentifiesWindow(exc) ==
    /\ {"from", "until"} \subseteq DOMAIN exc.url
    /\ exc.url.from = oai.params.from
    /\ exc.url.until = oai.params.until

IdentifiesAttempts(exc) == "attempts" \in DOMAIN exc

\* C13 as stated: when the retries of a page are used up list_records
\* raises an error that names the window and the number of attempts, and
\* it never ends the stream normally.
C13_TypedErrorOnExhaustion ==
    /\ EndsComplete
    /\ Exhausted =>
          /\ oai.pc = "raised"
          /\ IdentifiesWindow(oai.exc)
          /\ IdentifiesAttempts(oai.exc)

\* C13 amended: when the retries of a page are used up list_records raises
\* the exception of the last attempt as the library made it, and it ends
\* the stream normally only after a page without token whose records are
\* all yielded.
C13_RaisesLastError ==
    /\ EndsComplete
    /\ Exhausted =>
          /\ oai.pc = "raised"
          /\ oai.exc = Exc(net.outcome, net.sent)
    /\ oai.pc = "raised" /\ net.outcome \in Caught => Exhausted

C13_Witness ==
    /\ oai.pc = "raised"
    /\ Exhausted
    /\ net.served >= 1
    /\ net.out >= 1
    /\ ~IdentifiesWindow(oai.exc)

\* C14: a continuation page is requested exactly when the last received
\* page carried a token, after all records of that page are yielded; after
\* a page without token the stream ends.
C14_PagesInOrder ==
    [][/\ Requested /\ net.served >= 1 =>
              /\ TokenOf(net.rt_elt) # None
              /\ net.out = net.got
       /\ oai.pc = "yield" /\ oai'.pc # "yield" =>
              /\ net.out = net.got
              /\ oai'.pc = IF TokenOf(net.rt_elt) # None THEN "try" ELSE "done"
       /\ oai'.pc = "done" => TokenOf(net.rt_elt) = None /\ net.out = net.got]_vars

C14_Witness ==
    /\ oai.pc = "done"
    /\ net.served = MaxPages
    /\ net.got >= 2
    /\ net.rt_elt = [present |-> TRUE, text |-> <<WS>>]

\* C15: the first request of a call carries the initial parameters and no
\* token; every later request carries the token of the last received page
\* and none of from, until, set and metadataPrefix.
C15_TokenOnly ==
    [][Requested =>
          IF net.served = 0
          THEN /\ net'.sent = oai.params
               /\ "resumptionToken" \notin DOMAIN net'.sent
          ELSE /\ DOMAIN net'.sent = {"verb", "resumptionToken"}
               /\ net'.sent.resumptionToken = TokenOf(net.rt_elt)]_vars

C15_Witness ==
    /\ net.served >= 1
    /\ net.asked = 2
    /\ net.tries >= 2
    /\ net.rt_elt.text = <<WS, 2, WS>>
    /\ net.sent.resumptionToken = <<2>>

\* ------------------------------------------------ checkpoint properties
Unparsable(f) == f.exists /\ ~Parses(FileText(f))

\* C16: whatever happens during a checkpoint write, the checkpoint file
\* keeps its content or takes the complete new content.
C16_AtomicCheckpointWrite ==
    [][\/ ckfile' = ckfile
       \/ /\ ckfile' = Saving
          /\ Parses(FileText(ckfile'))]_vars

C16_Witness ==
    /\ g.status = "crashed"
    /\ pc = "idle"
    /\ ckfile.exists
    /\ Parses(FileText(ckfile))
    /\ tmpfile.exists
    /\ tmpfile.len \in 1..3
    /\ tmpfile.last_run # ckfile.last_run

\* a cycle that starts from the bootstrap date: what a cycle does when
\* there is no checkpoint file
BootstrapRun ==
    /\ g.status # "raised"
    /\ loc.since_dt = None
    /\ loc.start = BootstrapDay
    /\ g.status = "noop" <=> loc.start >= loc.end
    /\ g.status = "running" /\ g.wins # <<>> => g.wins[1][1] = BootstrapDay
    /\ CycleDone =>
          /\ WindowsInOrder
          /\ Parses(FileText(ckfile))
          /\ IF Upds(g.flushed) = {} THEN Since = <<loc.end, 0>>
             ELSE IsMaxOf(Since, Upds(g.flushed))

RunsWithoutFile ==
    g.status \in {"running", "noop", "done"} /\ ~g.ckpt0.exists => BootstrapRun

\* C17: with a checkpoint file that does not parse, get_since returns None
\* without raising and the cycle runs from the bootstrap date as it does
\* without a checkpoint file.
C17_CorruptCheckpointBootstraps ==
    /\ \A f \in UnparsableCheckpoints :
          ~CheckpointRaises(f) /\ get_since(f) = get_since(NoCheckpoint)
    /\ g.status # "none" /\ Unparsable(g.ckpt0) => BootstrapRun

C17_Witness ==
    /\ CycleDone
    /\ Unparsable(g.ckpt0)
    /\ g.ckpt0.len = 3
    /\ Len(g.wins) >= 2
    /\ g.flushed # {}

\* ------------------------------------------------------ select properties
Returned == sel.state = "returned"
InputRow(x) == sel.df[x]
SameId(x, y) == InputRow(x).arxiv_id = InputRow(y).arxiv_id

\* The rows kept in descending order of updated, rows of equal updated in
\* the order of the input.
InputOrderTop(S) ==
    CHOOSE q \in Perms(S) :
        \A i, j \in 1..Len(q) :
            i < j => \/ InputRow(q[i]).updated > InputRow(q[j]).updated
                     \/ /\ InputRow(q[i]).updated = InputRow(q[j]).updated
                        /\ q[i] < q[j]

\* The result has min(N, M) rows of the M that pass the filters, in
\* descending order of updated, and no row left out is newer than a row
\* returned.
TopNByUpdated ==
    Returned /\ sel.cfg.select_order_by = "updated_desc" /\ sel.cfg.select_limit > 0 =>
        LET out == sel.run.out
            kept == sel.run.kept
        IN  /\ Len(out) = Min(sel.cfg.select_limit, Len(kept))
            /\ Range(out) \subseteq Range(kept)
            /\ \A i, j \in 1..Len(out) :
                   i < j => InputRow(out[i]).updated >= InputRow(out[j]).updated
            /\ \A x \in Range(kept) \ Range(out) : \A y \in Range(out) :
                   InputRow(x).updated <= InputRow(y).updated

\* C18: with order_by = updated_desc and limit = N > 0, select returns the
\* min(N, M) rows with the largest updated among the M deduplicated rows that
\* pass the filters, in descending order of updated, rows of equal updated
\* in their original relative order.
C18_TopNStableOrder ==
    Returned /\ sel.cfg.select_order_by = "updated_desc" /\ sel.cfg.select_limit > 0 =>
        sel.run.out = SubSeq(InputOrderTop(Range(sel.run.kept)), 1,
                             Min(sel.cfg.select_limit, Len(sel.run.kept)))

\* C19: the output holds each id at most once, and the instance kept of an
\* id has the maximum updated among the input instances of that id.
C19_DedupKeepsNewest ==
    Returned =>
        LET out == sel.run.out
        IN  /\ \A i, j \in 1..Len(out) : i # j => ~SameId(out[i], out[j])
            /\ \A i \in 1..Len(out) : \A m \in 1..Len(sel.df) :
                   SameId(m, out[i]) =>
                       InputRow(m).updated <= InputRow(out[i]).updated

\* an id read twice, the older instance after the newer one, is returned
C19_Witness ==
    /\ Returned
    /\ \E i \in 1..Len(sel.run.out) : \E m \in 1..Len(sel.df) :
          /\ m > sel.run.out[i]
          /\ SameId(m, sel.run.out[i])
          /\ InputRow(m).updated < InputRow(sel.run.out[i]).updated

\* The keyword rule over a text: some include term is in it, or there is no
\* include term, and no exclude term is in it; terms are lower-cased.
KeywordRule(text, cfg) ==
    /\ \/ cfg.select_keywords_include = {}
       \/ \E k \in cfg.select_keywords_include : Contains(text, lower(k))
    /\ \A k \in cfg.select_keywords_exclude : ~Contains(text, lower(k))

PassesBy(Text(_)) ==
    Returned /\ sel.cfg.select_categories = {} =>
        \A x \in Range(sel.run.dedup) :
            x \in Range(sel.run.kept) <=> KeywordRule(Text(InputRow(x)), sel.cfg)

\* C20: a row passes the keyword filter exactly when the lower-cased
\* concatenation of its title and abstract satisfies the keyword rule.
C20_KeywordFilter ==
    PassesBy(LAMBDA row : lower(row.title \o row.abstract))

\* C20, amended: a row passes the keyword filter exactly when the lower-cased
\* text made of its title, a newline and its abstract satisfies the keyword
\* rule.
C20_KeywordFilterNewline ==
    PassesBy(LAMBDA row : lower(row.title) \o <<NL>> \o lower(row.abstract))

\* a row passes on an include term of another case, with exclude terms
\* given, although a term that spans title and abstract is excluded
C20_Witness ==
    /\ Returned
    /\ sel.cfg.select_keywords_include = {<<"A">>}
    /\ sel.cfg.select_keywords_exclude = {<<"a", "b">>}
    /\ Len(sel.run.kept) = 1
    /\ InputRow(sel.run.kept[1]).title = <<"a">>
    /\ InputRow(sel.run.kept[1]).abstract = <<"B">>

\* C21: with a non-empty allow-list a row passes the category filter exactly
\* when one of its categories is in the allow-list or, the row having no list
\* of categories, its primary category is; with an empty allow-list every
\* row passes.
C21_CategoryFilter ==
    Returned /\ sel.cfg.select_keywords_include = {} /\ sel.cfg.select_keywords_exclude = {} =>
        \A x \in Range(sel.run.dedup) :
            x \in Range(sel.run.kept) <=>
                \/ sel.cfg.select_categories = {}
                \/ /\ InputRow(x).categories.list
                   /\ \E c \in InputRow(x).categories.items : c \in sel.cfg.select_categories
                \/ /\ ~InputRow(x).categories.list
                   /\ InputRow(x).primary_category \in sel.cfg.select_categories

\* a row passes on a category that is not its primary category
C21_Witness ==
    /\ Returned
    /\ sel.cfg.select_categories = {"cs.LG"}
    /\ Len(sel.run.kept) = 1
    /\ InputRow(sel.run.kept[1]).categories = [list |-> TRUE, items |-> {"cs.AI", "cs.LG"}]
    /\ InputRow(sel.run.kept[1]).primary_category = "cs.AI"

SortKey(x) == InputRow(x)[OrderColumn(sel.cfg)]

\* The rows returned are in non-increasing order of the sort key, rows
\* without a key last.
SortedByKey ==
    Returned =>
        \A i, j \in 1..Len(sel.run.out) :
            i < j => Before(SortKey(sel.run.out[i]), SortKey(sel.run.out[j]), FALSE)

\* C22: the output is in non-increasing order of updated, or of created with
\* order_by = created_desc, and rows of equal key keep the relative order
\* they had before the sort.
C22_SortedStable ==
    Returned =>
        \A i, j \in 1..Len(sel.run.out) :
            i < j =>
                /\ Before(SortKey(sel.run.out[i]), SortKey(sel.run.out[j]), FALSE)
                /\ SortKey(sel.run.out[i]) = SortKey(sel.run.out[j]) =>
                       Pos(sel.run.kept, sel.run.out[i]) < Pos(sel.run.kept, sel.run.out[j])

IsPrefix(p, q) == Len(p) <= Len(q) /\ p = SubSeq(q, 1, Len(p))

\* The limit acts on the rows that were deduplicated, then filtered, then
\* ordered.
LimitComesLast ==
    /\ IsPrefix(sel.run.out, sel.run.sorted)
    /\ Len(sel.run.sorted) = Len(sel.run.kept)
    /\ Range(sel.run.sorted) = Range(sel.run.kept)
    /\ Range(sel.run.kept) \subseteq Range(sel.run.dedup)

\* C23: for every limit the result is a prefix of the ordered, filtered
\* sequence: at most limit rows when limit is set and not 0, the whole
\* sequence when limit is 0 or not set.
C23_LimitPrefix ==
    Returned =>
        /\ LimitComesLast
        /\ sel.limit.set /\ sel.limit.value # 0 => Len(sel.run.out) <= sel.limit.value
        /\ ~sel.limit.set \/ sel.limit.value = 0 => sel.run.out = sel.run.sorted

\* C23, amended: the result is a prefix of the ordered, filtered sequence:
\* its first L rows (all of them when there are fewer) for a limit L > 0,
\* L being the default when no limit is set; the whole sequence for L = 0;
\* all but its last -L rows for L < 0.
C23_LimitPrefixDefault ==
    Returned =>
        LET L == IF sel.limit.set THEN sel.limit.value ELSE DefaultLimit
            M == Len(sel.run.sorted)
        IN  /\ LimitComesLast
            /\ L > 0 => Len(sel.run.out) = Min(L, M)
            /\ L = 0 => sel.run.out = sel.run.sorted
            /\ L < 0 => Len(sel.run.out) = (IF M + L > 0 THEN M + L ELSE 0)

\* no limit is set and the default cuts the sequence
C23_Witness ==
    /\ Returned
    /\ ~sel.limit.set
    /\ Len(sel.run.sorted) > DefaultLimit
    /\ Len(sel.run.out) = DefaultLimit

\* -------------------------------------------------- sync cycle outcome
Succeeded == {i \in 1..Len(g.wins) : g.wins[i][3]}

\* A cycle that met only failed windows or records without id has ended
\* without raising.
WindowFailuresNotRaised ==
    pc = "idle" /\ g.status \in {"done", "noop"} /\ ~g.ioErr => g.ret.returned

\* C24: a sync cycle does not raise for record-level or window-level
\* failures, raises for a store-write failure, and on completion returns a
\* status with the number of windows that succeeded, the number that failed
\* and the resulting checkpoint value.
C24_ReturnsStatus ==
    /\ WindowFailuresNotRaised
    /\ g.ioErr => ~g.ret.returned
    /\ g.ret.returned =>
          /\ g.ret.value # None
          /\ g.ret.value.succeeded = Cardinality(Succeeded)
          /\ g.ret.value.failed = Len(g.wins) - Cardinality(Succeeded)
          /\ g.ret.value.checkpoint = ckfile.last_updated_iso

\* -------------------------------------------------- partition properties
Unparsable_updated(r) == ~IsIso(r.updated)
InPartition(p, r) == \E i \in 1..Len(files[p]) : files[p][i] = r

\* C25: a record whose updated value is no date is appended to the
\* "unknown" partition, and no read_range call returns a record stored in
\* the "unknown" partition.
C25_UnknownPartition ==
    /\ last.kind \in {"append", "again"} =>
          \A i \in 1..Len(last.rows) :
              last.rows[i].arxiv_id # NoId /\ Unparsable_updated(last.rows[i]) =>
                  /\ InPartition(UnknownKey, last.rows[i])
                  /\ \A p \in PartKeys \ {UnknownKey} : ~InPartition(p, last.rows[i])
    /\ last.kind = "read" =>
          \A i \in 1..Len(last.rows) : ~InPartition(UnknownKey, last.rows[i])

\* a read returns a record while the "unknown" partition holds another
C25_Witness ==
    /\ last.kind = "read"
    /\ last.rows # <<>>
    /\ files[UnknownKey] # <<>>

\* C26: every line lies in the partition of the year and month of its
\* record's updated value, whatever the store held, whatever the batch was
\* and in whatever order the calls came; a record appended again has the
\* same partition.
C26_PartitionByUpdated ==
    \A pi \in LinesOf(files) :
        LET r == files[pi[1]][pi[2]]
        IN  IF Unparsable_updated(r)
            THEN pi[1] = UnknownKey
            ELSE pi[1] = <<r.updated[1], r.updated[2]>>

\* two versions of one id are stored in two months, and the call is repeated
C26_Witness ==
    /\ last.kind = "again"
    /\ Len(last.rows) = 2
    /\ last.rows[1].arxiv_id = last.rows[2].arxiv_id
    /\ \E p, q \in PartKeys \ {UnknownKey} :
          /\ p # q
          /\ files[p] = <<last.rows[2]>>
          /\ files[q] = <<last.rows[1]>>

\* ------------------------------------------------------ end of a call
InCall == oai.pc \in {"try", "yield"}
Ended == oai.pc \in {"done", "raised"}

\* What a call has left to do at most, the endpoint holding MaxPages pages:
\* the pages not yet received, each with its requests and records, then
\* the requests left for the page asked for or the records left to yield.
PageWork == max_retries + MaxPageRecs + 2
Rank ==
    IF oai.pc = "try"
    THEN (MaxPages - net.served) * PageWork + (max_retries + 1 - oai.attempt)
    ELSE IF oai.pc = "yield"
    THEN (MaxPages - net.served) * PageWork + (max_retries + 2) + (oai.root.n - oai.i)
    ELSE 0

\* every step of a call brings its end nearer
CallTerminates == [][InCall => Rank' < Rank /\ Rank' >= 0]_vars

\* a new call asks for the first page of its window, without token
FreshCall ==
    oai.pc \in {"idle", "done", "raised"} /\ oai'.pc = "try" =>
        /\ net' = NoNet
        /\ oai'.attempt = 0
        /\ "resumptionToken" \notin DOMAIN oai'.query
        /\ {"from", "until"} \subseteq DOMAIN oai'.query

FreshCallStartsOver == [][FreshCall]_vars

\* C27: a call of list_records is finite; it ends after a page without
\* continuation token or with an error when a page has used up its retries;
\* a fresh call starts again with the initial from/until request.
C27_FiniteCall ==
    [][/\ InCall => Rank' < Rank /\ Rank' >= 0
       /\ FreshCall
       /\ oai'.pc = "done" => net'.outcome = "ok" /\ TokenOf(net'.rt_elt) = None
       /\ oai'.pc = "raised" => net'.outcome \in Failures /\ net'.tries = max_retries + 1]_vars

\* ------------------------------------------------- checkpoint value
FlushedUpds == Upds(g.flushed)
Since0 == get_since(g.ckpt0)

\* C28: a cycle that is no no-op writes, after its windows, the checkpoint
\* with the maximum updated over the records flushed in the cycle, or with
\* the cycle's end date when no record was newly observed.
C28_MaxFlushedOrEnd ==
    CycleDone =>
        /\ ckfile.exists
        /\ IF FlushedUpds # {}
           THEN IsMaxOf(Since, FlushedUpds)
           ELSE Since = <<loc.end, 0>>

\* C28, amended: the checkpoint written is the maximum over the previous
\* checkpoint value and the updated values of the records flushed in the
\* cycle, or the cycle's end date when there was no checkpoint and no
\* record with a date was flushed.
C28_MaxSeenOrEnd ==
    CycleDone =>
        LET seen == FlushedUpds \cup (IF Since0 = None THEN {} ELSE {Since0})
        IN  /\ ckfile.exists
            /\ IF seen # {}
               THEN IsMaxOf(Since, seen)
               ELSE Since = <<loc.end, 0>>

\* a cycle that found a checkpoint flushes records of two dates
C28_Witness ==
    /\ CycleDone
    /\ g.ckpt0.exists
    /\ Cardinality(FlushedUpds) = 2
    /\ DtLess(Since0, Since)

\* ------------------------------------------------------ order in exec
\* Every record flushed so far in the cycle is in the store, in the version
\* flushed or a newer one, and the index file of its partition says so.
FlushedOnDisk ==
    \A r \in g.flushed :
        /\ StoredOrSuperseded(r)
        /\ r.arxiv_id \in DOMAIN index[PartitionOf(r)]
        /\ StrGeq(index[PartitionOf(r)][r.arxiv_id], r.updated)

AllWindowsAttempted ==
    /\ loc.cur > loc.end
    /\ g.wins # <<>>
    /\ g.wins[1][1] = loc.start
    /\ g.wins[Len(g.wins)][2] = loc.end

ReadStep == last'.kind = "read" /\ last.kind # "read"

\* C29: within one node execution every append_records call of the cycle,
\* data lines and index rewrite, has completed before the checkpoint is
\* written; the checkpoint is written after the last window was attempted
\* and not before; read_range and select run after the cycle has ended.
C29_OrderWithinExec ==
    [][/\ ckfile' # ckfile =>
             /\ AllWindowsAttempted
             /\ pc = "loop"
             /\ FlushedOnDisk
             /\ files' = files /\ index' = index
             /\ last.kind = "none" /\ sel.state = "none"
       /\ files' # files \/ index' # index =>
             /\ ckfile = g.ckpt0
             /\ last.kind = "none" /\ sel.state = "none"
       /\ ReadStep =>
             /\ pc = "idle"
             /\ g.status \in {"done", "noop", "raised"}
             /\ g.status = "done" <=> ckfile # g.ckpt0 \/ ckfile.last_run # g.ckpt0.last_run
             /\ sel.state = "none"
       /\ sel' # sel => last.kind = "read" /\ pc = "idle"]_vars

\* select returns a record the cycle of the same execution has flushed
C29_Witness ==
    /\ sel.state = "returned"
    /\ CycleDone
    /\ \E k \in 1..Len(sel.run.out) : \E r \in g.flushed :
          /\ sel.df[sel.run.out[k]].arxiv_id = r.arxiv_id
          /\ r.updated = isoformat(<<sel.df[sel.run.out[k]].updated, 0>>)

\* ---------------------------------------------------------- windows
\* the windows of the cycle so far: those that ended and the one open
Windows ==
    [i \in 1..Len(g.wins) |-> <<g.wins[i][1], g.wins[i][2]>>]
    \o (IF pc = "stream" THEN <<<<loc.cur, loc.window_end>>>> ELSE <<>>)

Covering(d) == {i \in 1..Len(Windows) : Windows[i][1] <= d /\ d <= Windows[i][2]}

\* C30: the windows of a cycle with start < end come one at a time in
\* ascending order, are disjoint, span at most window_days days each and
\* cover each day of [start, end] once; a window begins only when the
\* stream of the window before has ended or failed.
C30_WindowsPartitionRange ==
    g.status \in {"running", "done"} =>
        /\ \A i \in 1..Len(Windows) :
              /\ Windows[i][1] <= Windows[i][2]
              /\ Windows[i][2] - Windows[i][1] + 1 <= loc.window_days
              /\ loc.start <= Windows[i][1] /\ Windows[i][2] <= loc.end
              /\ i > 1 => Windows[i - 1][2] < Windows[i][1]
        /\ \A d \in loc.start..loc.end :
              /\ Cardinality(Covering(d)) <= 1
              /\ d < loc.cur => Cardinality(Covering(d)) = 1
              /\ CycleDone => Cardinality(Covering(d)) = 1
        /\ pc = "stream" => Len(Windows) = Len(g.wins) + 1
        /\ pc = "stream" /\ g.wins # <<>> => g.wins[Len(g.wins)][2] + 1 = loc.cur

\* a cycle is done whose last window is shorter than the others and whose
\* first window failed
C30_Witness ==
    /\ CycleDone
    /\ Len(g.wins) >= 2
    /\ ~g.wins[1][3]
    /\ g.wins[1][2] - g.wins[1][1] + 1 = loc.window_days
    /\ loc.window_days > 1
    /\ g.wins[Len(g.wins)][2] - g.wins[Len(g.wins)][1] + 1 < loc.window_days

\* ------------------------------------------------------------ batches
RECURSIVE Flatten(_)
Flatten(ss) == IF ss = <<>> THEN <<>> ELSE Head(ss) \o Flatten(Tail(ss))

WindowCompleted == pc = "loop" /\ g.wins # <<>> /\ g.wins[Len(g.wins)][3]

\* C31: in a window the batch never holds more than the flush threshold
\* of records once a record is processed, and each record with an id of a
\* window whose stream completes is passed to append_records once, in a
\* full batch or in the trailing partial batch.
C31_BatchBoundedPassedOnce ==
    /\ Len(loc.batch) <= FlushThreshold
    /\ pc = "stream" => Flatten(g.passes) \o loc.batch = g.recvd
    /\ WindowCompleted =>
          /\ Flatten(g.passes) = g.recvd
          /\ \A i \in 1..Len(g.passes) :
                IF i < Len(g.passes)
                THEN Len(g.passes[i]) = FlushThreshold
                ELSE Len(g.passes[i]) \in 1..FlushThreshold

\* a completed window with a full batch and a tail
C31_Witness ==
    /\ WindowCompleted
    /\ Len(g.passes) = 2
    /\ Len(g.passes[1]) = FlushThreshold
    /\ Len(g.passes[2]) < FlushThreshold
    /\ Len(g.recvd) > FlushThreshold

\* ------------------------------------------------------ no-op cycle
\* the start date of a cycle begun now: the date of the checkpoint's
\* last_updated, or the bootstrap date
StartDate == IF get_since(ckfile) = None THEN BootstrapDay ELSE get_since(ckfile)[1]

\* a step that begins a cycle
CycleBegins == pc = "idle" /\ today' = today /\ <<g', loc', cache'>> # <<g, loc, cache>>

\* C32: a cycle whose start date is at or after its end date, today, is a
\* no-op: no window is requested, nothing is appended to the store and the
\* checkpoint file stays as it is.
C32_NoOpCycle ==
    [][ CycleBegins /\ StartDate >= today =>
          /\ g'.status = "noop"
          /\ pc' = "idle"
          /\ g'.wins = <<>> /\ g'.recvd = <<>> /\ g'.yielded = {} /\ g'.flushed = {}
          /\ oai' = oai /\ net' = net
          /\ files' = files /\ index' = index
          /\ ckfile' = ckfile /\ tmpfile' = tmpfile ]_vars

\* a no-op cycle on the day of the checkpoint a cycle before it wrote,
\* with records in the store
C32_Witness ==
    /\ g.status = "noop"
    /\ ckfile # NoCheckpoint
    /\ get_since(ckfile)[1] = today
    /\ today > BootstrapDay
    /\ g.seen # {}

\* ------------------------------------------------- skipped windows
\* C33: after a cycle that had a failed window and wrote the checkpoint
\* with value c, every later cycle starts at the date of the checkpoint
\* it finds, which is at least the date of c, and requests no window that
\* begins before the date of c.
C33_FailedWindowNotRetried ==
    g.floor # None =>
        /\ g.ckpt0 # NoCheckpoint
        /\ get_since(g.ckpt0) # None
        /\ g.status \in {"running", "done", "noop"}
        /\ loc.start = get_since(g.ckpt0)[1]
        /\ loc.start >= g.floor[1]
        /\ \A i \in 1..Len(Windows) : Windows[i][1] >= g.floor[1]
        /\ Since # None /\ Since[1] >= g.floor[1]

\* a later cycle has visited its windows, from the date of c on, after a
\* window before that date had failed
C33_Witness ==
    /\ g.floor # None
    /\ g.floor[1] > BootstrapDay
    /\ CycleDone
    /\ Len(g.wins) >= 2
    /\ g.wins[1][1] = g.floor[1]

\* ------------------------------------------------- record parse errors
NoLineWithoutId == \A pi \in LinesOf(files) : files[pi[1]][pi[2]].arxiv_id # NoId

\* the records received in a completed window are in the store
ReceivedStored ==
    WindowCompleted => \A i \in 1..Len(g.recvd) : StoredOrSuperseded(g.recvd[i])

\* C34 as stated: a record without an id or with a timestamp that cannot
\* be parsed is dropped alone: it is not appended, the other records of its
\* window are, and the window completes.
C34_ParseErrorDropped ==
    /\ NoLineWithoutId
    /\ \A pi \in LinesOf(files) : ~Unparsable_updated(files[pi[1]][pi[2]])
    /\ ReceivedStored

\* C34 amended: a record without an id is dropped alone; a record whose
\* timestamp cannot be parsed is kept with no updated value and appended
\* to the "unknown" partition; the other records of the window are
\* appended and the window completes.
C34_MissingIdDroppedAlone ==
    /\ NoLineWithoutId
    /\ ReceivedStored
    /\ WindowCompleted =>
          \A i \in 1..Len(g.recvd) :
              Unparsable_updated(g.recvd[i]) =>
                  \E j \in 1..Len(files[UnknownKey]) :
                      files[UnknownKey][j].arxiv_id = g.recvd[i].arxiv_id

\* a window completed in which a record without an id was dropped, a
\* record with a bad timestamp and a record with a good one were received
C34_Witness ==
    /\ WindowCompleted
    /\ g.noid > 0
    /\ \E i, j \in 1..Len(g.recvd) :
          /\ Unparsable_updated(g.recvd[i])
          /\ ~Unparsable_updated(g.recvd[j])
          /\ HasLine(files, g.recvd[i])
          /\ HasLine(files, g.recvd[j])

\* ------------------------------------------------- mid-stream failure
WindowFailed == pc = "loop" /\ g.wins # <<>> /\ ~g.wins[Len(g.wins)][3]

Passed == {Flatten(g.passes)[i] : i \in 1..Len(Flatten(g.passes))}

\* the values the tracked maximum can come from: the checkpoint read at the
\* start, the records append_records returned for, the end date written
\* when there is neither
TrackedFrom ==
    LET seen == Upds(g.flushed) \cup ({loc.since_dt} \ {None})
    IN  IF seen = {} /\ CycleDone THEN {<<loc.end, 0>>} ELSE seen

\* C35: when a window fails in mid-stream, the records it passed to
\* append_records in full batches stay stored and count toward the tracked
\* maximum updated; the records still in the batch are discarded: they are
\* not appended in the cycle and have no effect on the checkpoint.
C35_MidStreamFailure ==
    /\ WindowFailed =>
          /\ Flatten(g.passes) \o loc.batch = g.recvd
          /\ \A r \in Passed :
                /\ r \in g.flushed
                /\ StoredOrSuperseded(r)
                /\ fromisoformat(r.updated) # None =>
                      /\ loc.last_seen_updated # None
                      /\ DtLeq(fromisoformat(r.updated), loc.last_seen_updated)
    /\ \A r \in g.discarded \ g.flushed : HasLine(files, r) => HasLine(g.files0, r)
    /\ g.status \in {"running", "done"} /\ loc.last_seen_updated # None =>
          IsMaxOf(loc.last_seen_updated, TrackedFrom)
    /\ CycleDone => Since = loc.last_seen_updated

\* a window failed after a full batch, with a newer record in its batch
C35_Witness ==
    /\ WindowFailed
    /\ g.passes # <<>>
    /\ \E i \in 1..Len(loc.batch) :
          /\ loc.batch[i] \in g.discarded \ g.flushed
          /\ fromisoformat(loc.batch[i].updated) # None
          /\ loc.last_seen_updated # None
          /\ DtLess(loc.last_seen_updated, fromisoformat(loc.batch[i].updated))

\* ------------------------------------------------ index and data file
\* the updated values of the lines of an id in a partition's data file
UpdatedOf(p, id) == {files[p][i].updated : i \in {j \in 1..Len(files[p]) : files[p][j].arxiv_id = id}}

\* C36: after each append_records call, the index.json of every partition
\* holds exactly the ids of the lines of the partition's data file and maps
\* each id to the largest updated value of its lines.
C36_IndexMatchesFile ==
    \A p \in PartKeys :
        /\ DOMAIN index[p] = {files[p][i].arxiv_id : i \in 1..Len(files[p])}
        /\ \A id \in DOMAIN index[p] :
              /\ index[p][id] \in UpdatedOf(p, id)
              /\ \A u \in UpdatedOf(p, id) : StrGeq(index[p][id], u)

\* a partition holds two lines of one id, after a repeated call
C36_Witness ==
    /\ last.kind = "again"
    /\ \E p \in PartKeys \ {UnknownKey} : \E id \in DOMAIN index[p] :
          /\ Cardinality(UpdatedOf(p, id)) = 2
          /\ Len(files[p]) = 2

\* ---------------------------------------------------- window cursor
WindowEnds == pc = "stream" /\ pc' = "loop"

\* with a window size of at least one day the cursor moves forward at
\* the end of every window
CursorAdvancesWhenPositive ==
    [][WindowEnds /\ loc.window_days >= 1 => loc'.cur > loc.cur]_vars

\* C37: for every window size the configuration can hold, the cursor moves
\* forward at the end of every window, so a cycle whose streams all end
\* visits finitely many windows and reaches the checkpoint write.
C37_CursorAdvances ==
    [][WindowEnds => loc'.cur > loc.cur]_vars

\* ------------------------------------------------ dedup before filters
\* the row satisfies the keyword rule and the category rule
PassesFilters(row) ==
    /\ KeywordRule(lower(row.title) \o <<NL>> \o lower(row.abstract), sel.cfg)
    /\ \/ sel.cfg.select_categories = {}
       \/ /\ row.categories.list
          /\ \E c \in row.categories.items : c \in sel.cfg.select_categories
       \/ /\ ~row.categories.list
          /\ row.primary_category \in sel.cfg.select_categories

\* the input instances of the id of row x that have its largest updated
Newest(x) ==
    {m \in 1..Len(sel.df) :
        /\ SameId(m, x)
        /\ \A k \in 1..Len(sel.df) : SameId(k, x) => InputRow(k).updated <= InputRow(m).updated}

\* an older instance of the id of row x passes the filters, the newest
\* instances do not
OlderAlonePasses(x) ==
    /\ \A m \in Newest(x) : ~PassesFilters(InputRow(m))
    /\ \E k \in 1..Len(sel.df) : SameId(k, x) /\ k \notin Newest(x) /\ PassesFilters(InputRow(k))

\* C38: dedup comes before the keyword and category filters: an id whose
\* instance of maximum updated fails a filter is not in the output, even
\* when an older instance of the id would pass.
C38_DedupBeforeFilters ==
    Returned =>
        \A x \in 1..Len(sel.df) :
            (\A m \in Newest(x) : ~PassesFilters(InputRow(m))) =>
                \A i \in 1..Len(sel.run.out) : ~SameId(sel.run.out[i], x)

\* the newest version of an id fails the category filter, an older one
\* would pass, and the id is not returned
C38_Witness ==
    /\ Returned
    /\ sel.cfg.select_categories # {}
    /\ \E x \in 1..Len(sel.df) : OlderAlonePasses(x)
    /\ sel.run.out = <<>>

\* the same for the keyword filter, next to a row of another id
KeywordCase ==
    /\ Returned
    /\ sel.cfg.select_keywords_include # {}
    /\ \E x \in 1..Len(sel.df) : OlderAlonePasses(x)
    /\ Len(sel.run.out) = 1

\* ------------------------------------------------------ backoff delay
\* the retry loop blocked after the failed attempt number oai.attempt
HasSlept == oai.slept # None

\* min(backoff_base ** k, backoff_max)
Backoff(k) == FracMin(FracPow(oai.backoff_base, k), oai.backoff_max)

NearBackoff(k) ==
    /\ FracLeq(FracMul(<<9, 10>>, Backoff(k)), oai.slept)
    /\ FracLeq(oai.slept, FracMul(<<11, 10>>, Backoff(k)))

\* C39 as stated: with jitter disabled the delay before the retry that
\* follows the k-th failed attempt of a page equals
\* min(backoff_base ** k, backoff_max) and never exceeds backoff_max; with
\* jitter enabled it differs from that value only by a small random factor.
C39_DelayIsBackoff ==
    HasSlept =>
        /\ ~oai.jitter => oai.slept = Backoff(oai.attempt) /\ FracLeq(oai.slept, oai.backoff_max)
        /\ oai.jitter => NearBackoff(oai.attempt)

\* C39: the delay before the retry that follows the k-th failed attempt is
\* never below 0.5 s; with jitter disabled it is the larger of 0.5 s and
\* min(backoff_base ** k, backoff_max), so it never exceeds the larger of
\* 0.5 s and backoff_max; with jitter enabled it is 0.5 s or within a tenth
\* of min(backoff_base ** k, backoff_max).
C39_DelayFloored ==
    HasSlept =>
        /\ FracLeq(SleepFloor, oai.slept)
        /\ ~oai.jitter =>
              /\ oai.slept = IF FracLeq(SleepFloor, Backoff(oai.attempt))
                             THEN Backoff(oai.attempt) ELSE SleepFloor
              /\ FracLeq(oai.slept, oai.backoff_max) \/ oai.slept = SleepFloor
        /\ oai.jitter =>
              \/ NearBackoff(oai.attempt)
              \/ oai.slept = SleepFloor /\ FracLeq(Backoff(oai.attempt), oai.slept)

\* without jitter the third retry of a page waits backoff_max, which the
\* power has passed
C39_Witness ==
    /\ HasSlept
    /\ ~oai.jitter
    /\ oai.attempt = 3
    /\ ~FracLeq(FracPow(oai.backoff_base, 3), oai.backoff_max)
    /\ oai.slept = oai.backoff_max
    /\ oai.slept # SleepFloor

\* the delay is the floor, above backoff_max
FloorCase ==
    /\ HasSlept
    /\ ~oai.jitter
    /\ oai.slept = SleepFloor
    /\ ~FracLeq(oai.slept, oai.backoff_max)

\* a jittered delay that is not the floor and not the unjittered value
JitterCase ==
    /\ HasSlept
    /\ oai.jitter
    /\ oai.slept # SleepFloor
    /\ oai.slept # Backoff(oai.attempt)

\* ------------------------------------------- order of serialized values
\* the instant of a serialized timestamp, in hours; a naive one is taken
\* as UTC
Instant(u) ==
    LET t == fromisoformat(u)
    IN  t[1] * 24 + t[2] - (IF Len(t) = 3 THEN t[3] ELSE 0)

Aware(u) == Len(u) = 6

\* the serialized updated values of the lines of partition p
Serialized(p) == {files[p][i].updated : i \in 1..Len(files[p])} \ {None}

\* C40: for every pair of updated values serialized into a partition file
\* and index, string comparison of the serialized forms gives the same
\* order as chronological comparison of the timestamps, so the
\* newer-than decision of append_records is chronologically correct.
C40_StringOrderIsChronological ==
    \A p \in DOMAIN files : \A u \in Serialized(p), v \in Serialized(p) :
        Aware(u) = Aware(v) => (StrLess(u, v) <=> Instant(u) < Instant(v))

\* values without an offset are ordered as their instants are
NaiveOrderIsChronological ==
    \A p \in DOMAIN files : \A u \in Serialized(p), v \in Serialized(p) :
        ~Aware(u) /\ ~Aware(v) => (StrLess(u, v) <=> Instant(u) < Instant(v))

\* a record is skipped as not newer although its instant is later than
\* the one the index holds
LaterSkipped ==
    /\ last.kind = "append"
    /\ \E p \in DOMAIN files :
          /\ "a" \in DOMAIN index[p]
          /\ last.rows[1].updated # None
          /\ PartitionOf(last.rows[1]) = p
          /\ Aware(last.rows[1].updated) /\ Aware(index[p]["a"])
          /\ Instant(index[p]["a"]) < Instant(last.rows[1].updated)

====
